---- MODULE Spec2Model ----
(***************************************************************************)
(* Points Ledger (DataService), Recognition Orchestrator (the process     *)
(* methods of RecognitionService) and reward redemption (CommandService)   *)
(* of the appreciation bot, as a state machine.                            *)
(*                                                                         *)
(* Dates: the code compares new Date().toISOString().split('T')[0]         *)
(* strings for equality only; a date is modelled as its day number.        *)
(* Strings that the code only compares (user ids, tags, reward names) are  *)
(* TLA+ strings.  A byValue map is a function whose domain is the set of   *)
(* keys present.                                                           *)
(***************************************************************************)
EXTENDS Integers, Sequences, FiniteSets, TLC

VARIABLES
  today,    \* the current UTC calendar day (what new Date() yields)
  config,   \* AppState.config
  users,    \* AppState.users : userId -> UserRecord, domain = ids present
  tasks,    \* the handlers in flight: where each stands and its locals
  last,     \* history: the most recent call, its result, whether it saved
  redeemed, \* history: points each user redeemed since their last reset
  disk      \* the data file: <<>> while absent, else <<the snapshot last written>>

vars == <<today, config, users, tasks, last, redeemed, disk>>

(***************************************************************************)
(* Bounds of the model                                                     *)
(***************************************************************************)
MaxDay == 2        \* days the clock runs through
MaxPoints == 2     \* longest '+' run / largest points argument
MaxTotal == 2      \* cap on the points one user receives or gives
MaxArg == 2        \* largest number an admin passes (daily limit, reward cost)

Users == {"U1", "U2"}
Tags == {"general", "teamwork"}

(***************************************************************************)
(* Data model (types.ts) and the default state                             *)
(***************************************************************************)
DefaultDailyLimit == 5
CoffeeCost == 50
HalfDayCost == 100

DefaultValues == <<"integrity", "innovation", "teamwork">>

DefaultRewards ==
  << [name |-> "Coffee Voucher", cost |-> CoffeeCost],
     [name |-> "Half-day Off", cost |-> HalfDayCost] >>

DefaultConfig ==
  [dailyLimit |-> DefaultDailyLimit, values |-> DefaultValues, rewards |-> DefaultRewards]

EmptyMap == [k \in {} |-> 0]

NewRecordYesterday(d) ==
  [total |-> 0, byValue |-> EmptyMap, dailyGiven |-> 0, lastReset |-> d - 1]

NewRecord(d) == [total |-> 0, byValue |-> EmptyMap, dailyGiven |-> 0, lastReset |-> d]

\* obj[key] = val on a JS object used as a map
Put(m, k, x) == [y \in DOMAIN m \cup {k} |-> IF y = k THEN x ELSE m[y]]

RECURSIVE SumOver(_, _)
SumOver(m, ks) ==
  IF ks = {} THEN 0
  ELSE LET k == CHOOSE x \in ks : TRUE IN m[k] + SumOver(m, ks \ {k})

\* sum(byValue.values())
SumByValue(rec) == SumOver(rec.byValue, DOMAIN rec.byValue)

(***************************************************************************)
(* DataService: the synchronous part of each method, as a function of the  *)
(* state it reads                                                          *)
(***************************************************************************)
\* getReward: rewards.find(r => r.name === name); <<>> stands for undefined
getReward(cfg, name) ==
  LET hits == {i \in 1..Len(cfg.rewards) : cfg.rewards[i].name = name} IN
  IF hits = {} THEN <<>>
  ELSE <<cfg.rewards[CHOOSE i \in hits : \A j \in hits : i <= j]>>

materialiseRefreshes(us, id, d) ==
  IF id \in DOMAIN us THEN Put(us, id, [us[id] EXCEPT !.lastReset = d])
  ELSE Put(us, id, NewRecord(d))

\* getUserRecord's effect on state.users: an unknown id is materialised
materialise(us, id, d) == IF id \in DOMAIN us THEN us ELSE Put(us, id, NewRecord(d))

\* getUserRecord's return value (a copy of the record)
getUserRecord(us, id, d) == materialise(us, id, d)[id]

canGivePointsStrict(us, cfg, id, p, d) ==
  LET user == getUserRecord(us, id, d) IN
  IF user.lastReset # d THEN TRUE ELSE user.dailyGiven + p < cfg.dailyLimit

canGivePointsIgnoresDate(us, cfg, id, p, d) ==
  getUserRecord(us, id, d).dailyGiven + p <= cfg.dailyLimit

canGivePoints(us, cfg, id, p, d) ==
  LET user == getUserRecord(us, id, d) IN
  IF user.lastReset # d THEN TRUE ELSE user.dailyGiven + p <= cfg.dailyLimit

rollOverKeepsGiven(rec, d) ==
  IF rec.lastReset # d THEN [rec EXCEPT !.lastReset = d] ELSE rec

\* recordRecognition: "Check if we need to reset the daily limit"
rollOver(rec, d) ==
  IF rec.lastReset # d THEN [rec EXCEPT !.dailyGiven = 0, !.lastReset = d] ELSE rec

debitGiverTwice(rec, p) == [rec EXCEPT !.dailyGiven = @ + p + p]

\* recordRecognition: "Increment daily given"
debitGiver(rec, p) == [rec EXCEPT !.dailyGiven = @ + p]

creditReceiverTotalOnly(rec, v, p) == [rec EXCEPT !.total = @ + p]

\* recordRecognition: "Increment total", "Increment value-specific points"
creditReceiver(rec, v, p) ==
  LET bv == IF v \in DOMAIN rec.byValue /\ rec.byValue[v] # 0
            THEN rec.byValue ELSE Put(rec.byValue, v, 0)
  IN [rec EXCEPT !.total = @ + p, !.byValue = Put(bv, v, bv[v] + p)]

recordRecognitionRollsReceiver(us, g, r, v, p, d) ==
  LET s1 == materialise(us, g, d)
      s2 == Put(s1, g, debitGiver(rollOver(s1[g], d), p))
      s3 == materialise(s2, r, d)
  IN Put(s3, r, creditReceiver(rollOver(s3[r], d), v, p))

\* recordRecognition, up to its await saveState()
recordRecognition(us, g, r, v, p, d) ==
  LET s1 == materialise(us, g, d)
      s2 == Put(s1, g, debitGiver(rollOver(s1[g], d), p))
      s3 == materialise(s2, r, d)
  IN Put(s3, r, creditReceiver(s3[r], v, p))

resetUserPointsKeepsDate(us, id, d) ==
  LET s1 == materialise(us, id, d) IN
  Put(s1, id, [s1[id] EXCEPT !.total = 0, !.byValue = EmptyMap, !.dailyGiven = 0])

\* resetUserPoints, up to its await saveState()
resetUserPoints(us, id, d) ==
  LET s1 == materialise(us, id, d) IN
  Put(s1, id, [s1[id] EXCEPT !.total = 0, !.byValue = EmptyMap,
                             !.dailyGiven = 0, !.lastReset = d])

canRedeemAlways(us, cfg, id, name, d) == getReward(cfg, name) # <<>>

\* redeemReward: neither early return is taken
canRedeem(us, cfg, id, name, d) ==
  /\ getReward(cfg, name) # <<>>
  /\ ~(getUserRecord(us, id, d).total < getReward(cfg, name)[1].cost)

redeemRewardKeepsTotal(us, cfg, id, name, d) ==
  IF getReward(cfg, name) = <<>> THEN us ELSE materialise(us, id, d)

\* redeemReward's effect on state.users, up to its await saveState()
redeemReward(us, cfg, id, name, d) ==
  IF getReward(cfg, name) = <<>> THEN us
  ELSE LET s1 == materialise(us, id, d) IN
       IF canRedeem(us, cfg, id, name, d)
       THEN Put(s1, id, [s1[id] EXCEPT !.total = @ - getReward(cfg, name)[1].cost])
       ELSE s1

\* value.toLowerCase().trim(), on the raw inputs the model draws
normalize(raw) ==
  CASE raw = " Kudos " -> "kudos"
    [] raw = "TeamWork" -> "teamwork"
    [] OTHER -> raw

\* values.includes(v)
includes(seq, v) == \E i \in 1..Len(seq) : seq[i] = v

addValuePushesRaw(cfg, raw) ==
  IF includes(cfg.values, raw) THEN cfg ELSE [cfg EXCEPT !.values = Append(@, raw)]

addValue(cfg, raw) ==
  IF includes(cfg.values, normalize(raw)) THEN cfg
  ELSE [cfg EXCEPT !.values = Append(@, normalize(raw))]

removeValue(cfg, raw) ==
  LET keep(v) == v # normalize(raw) IN [cfg EXCEPT !.values = SelectSeq(@, keep)]

addRewardAlwaysAppends(cfg, name, cost) ==
  [cfg EXCEPT !.rewards = Append(@, [name |-> name, cost |-> cost])]

addReward(cfg, name, cost) ==
  LET hits == {i \in 1..Len(cfg.rewards) : cfg.rewards[i].name = name} IN
  IF hits # {}
  THEN [cfg EXCEPT !.rewards[CHOOSE i \in hits : \A j \in hits : i <= j].cost = cost]
  ELSE [cfg EXCEPT !.rewards = Append(@, [name |-> name, cost |-> cost])]

removeReward(cfg, name) ==
  LET keep(r) == r.name # name IN [cfg EXCEPT !.rewards = SelectSeq(@, keep)]

\* history record of a call that ends in await saveState(), the write succeeding
saved(op, ret, stale) == [op |-> op, ret |-> ret, write |-> "save", stale |-> stale]

\* history record of a call whose saveState() throws 'Failed to save data'
failedSave(op, stale) == [op |-> op, ret |-> "throws", write |-> "failed", stale |-> stale]

\* history record of a call that returns without reaching saveState
noSave(op, ret, stale) == [op |-> op, ret |-> ret, write |-> "none", stale |-> stale]

recordRecognitionSavesGiverOnly(us, g, r, v, p, d) ==
  LET s1 == materialise(us, g, d) IN Put(s1, g, debitGiver(rollOver(s1[g], d), p))

\* recordRecognition: state.users when its saveState() is called, after the
\* giver's and the receiver's updates
recordRecognitionSaves(us, g, r, v, p, d) == recordRecognition(us, g, r, v, p, d)

addValueSavesAlways(cfg, raw) == TRUE

\* addValue: the normalised value is new, so it is pushed and saved
addValueSaves(cfg, raw) == ~includes(cfg.values, normalize(raw))

\* saveState: JSON.stringify(this.state), the whole AppState
snapshot(cfg, us) == [config |-> cfg, users |-> us]

writtenAlsoOnFailure(file, cfg, us, ok) == <<snapshot(cfg, us)>>

\* saveState: the file after the write, which replaces its content when it
\* succeeds and leaves it as it was when it fails
written(file, cfg, us, ok) == IF ok THEN <<snapshot(cfg, us)>> ELSE file

wroteSwallowsFailure(op, ret, stale, ok) == saved(op, ret, stale)

\* history record of a call that ends in await saveState()
wrote(op, ret, stale, ok) == IF ok THEN saved(op, ret, stale) ELSE failedSave(op, stale)

\* the stored lastReset of id differs from today (STALE_WINDOW)
Stale(us, id, d) == id \in DOMAIN us /\ us[id].lastReset # d

canGivePointsStoreRolls(us, id, d) ==
  LET s1 == materialise(us, id, d) IN Put(s1, id, rollOver(s1[id], d))

\* canGivePoints' effect on state.users: that of its getUserRecord call
canGivePointsStore(us, id, d) == materialise(us, id, d)

(***************************************************************************)
(* Ledger calls that run alone: the call's synchronous part and its write  *)
(***************************************************************************)
WithinCaps(us) ==
  \A u \in DOMAIN us : SumByValue(us[u]) <= MaxTotal /\ us[u].dailyGiven <= MaxTotal

DayChange ==
  /\ today < MaxDay
  /\ \A t \in DOMAIN tasks : tasks[t].pc # "loop"
  /\ today' = today + 1
  /\ last' = noSave("midnight", "void", FALSE)
  /\ UNCHANGED <<config, users, tasks, redeemed, disk>>

GetUserRecord(id) ==
  /\ users' = materialise(users, id, today)
  /\ last' = noSave("getUserRecord", "record", Stale(users, id, today))
  /\ UNCHANGED <<today, config, tasks, redeemed, disk>>

CanGivePoints(id, p) ==
  /\ users' = canGivePointsStore(users, id, today)
  /\ last' = noSave("canGivePoints",
                    IF canGivePoints(users, config, id, p, today) THEN "true" ELSE "false",
                    Stale(users, id, today))
  /\ UNCHANGED <<today, config, tasks, redeemed, disk>>

\* ok, here and below: whether the write of the call's saveState() succeeds
RecordRecognition(g, r, v, p, ok) ==
  /\ WithinCaps(recordRecognition(users, g, r, v, p, today))
  /\ users' = recordRecognition(users, g, r, v, p, today)
  /\ disk' = written(disk, config, recordRecognitionSaves(users, g, r, v, p, today), ok)
  /\ last' = wrote("recordRecognition", "void", Stale(users, g, today), ok)
  /\ UNCHANGED <<today, config, tasks, redeemed>>

ResetUserPoints(id, ok) ==
  /\ users' = resetUserPoints(users, id, today)
  /\ redeemed' = [redeemed EXCEPT ![id] = 0]
  /\ disk' = written(disk, config, users', ok)
  /\ last' = wrote("resetUserPoints", "void", Stale(users, id, today), ok)
  /\ UNCHANGED <<today, config, tasks>>

RedeemReward(id, name, ok) ==
  /\ users' = redeemReward(users, config, id, name, today)
  /\ IF canRedeem(users, config, id, name, today)
     THEN /\ last' = wrote("redeemReward", "true", Stale(users, id, today), ok)
          /\ disk' = written(disk, config, users', ok)
          /\ redeemed' = [redeemed EXCEPT ![id] = @ + getReward(config, name)[1].cost]
     ELSE /\ ok
          /\ last' = noSave("redeemReward", "false", Stale(users, id, today))
          /\ UNCHANGED <<redeemed, disk>>
  /\ UNCHANGED <<today, config, tasks>>

SetDailyLimit(l, ok) ==
  /\ config' = [config EXCEPT !.dailyLimit = l]
  /\ disk' = written(disk, config', users, ok)
  /\ last' = wrote("setDailyLimit", "void", FALSE, ok)
  /\ UNCHANGED <<today, users, tasks, redeemed>>

AddValue(raw, ok) ==
  /\ config' = addValue(config, raw)
  /\ IF addValueSaves(config, raw)
     THEN /\ disk' = written(disk, config', users, ok)
          /\ last' = wrote("addValue", "void", FALSE, ok)
     ELSE /\ ok
          /\ last' = noSave("addValue", "void", FALSE)
          /\ UNCHANGED disk
  /\ UNCHANGED <<today, users, tasks, redeemed>>

RemoveValue(raw, ok) ==
  /\ config' = removeValue(config, raw)
  /\ disk' = written(disk, config', users, ok)
  /\ last' = wrote("removeValue", "void", FALSE, ok)
  /\ UNCHANGED <<today, users, tasks, redeemed>>

AddReward(name, cost, ok) ==
  /\ config' = addReward(config, name, cost)
  /\ disk' = written(disk, config', users, ok)
  /\ last' = wrote("addReward", "void", FALSE, ok)
  /\ UNCHANGED <<today, users, tasks, redeemed>>

RemoveReward(name, ok) ==
  /\ config' = removeReward(config, name)
  /\ disk' = written(disk, config', users, ok)
  /\ last' = wrote("removeReward", "void", FALSE, ok)
  /\ UNCHANGED <<today, users, tasks, redeemed>>

ResetRewards(ok) ==
  /\ config' = [config EXCEPT !.rewards = <<>>]
  /\ disk' = written(disk, config', users, ok)
  /\ last' = wrote("resetRewards", "void", FALSE, ok)
  /\ UNCHANGED <<today, users, tasks, redeemed>>

ResetValues(ok) ==
  /\ config' = [config EXCEPT !.values = DefaultValues]
  /\ disk' = written(disk, config', users, ok)
  /\ last' = wrote("resetValues", "void", FALSE, ok)
  /\ UNCHANGED <<today, users, tasks, redeemed>>

(***************************************************************************)
(* Spec: every Ledger call, one at a time, from the default state.         *)
(* U1 gives and U2 receives; both are read, reset and redeem.  The writes  *)
(* succeed; SpecSave is the specification in which they can fail.          *)
(***************************************************************************)
Init ==
  /\ today = 1
  /\ config = DefaultConfig
  /\ users = EmptyMap
  /\ tasks = EmptyMap
  /\ last = noSave("constructor", "void", FALSE)
  /\ redeemed = [u \in Users |-> 0]
  /\ disk = <<>>

Next ==
  \/ DayChange
  \/ \E id \in Users : GetUserRecord(id)
  \/ \E id \in Users : CanGivePoints(id, 1)
  \/ \E v \in Tags, p \in 1..MaxPoints : RecordRecognition("U1", "U2", v, p, TRUE)
  \/ \E id \in Users : ResetUserPoints(id, TRUE)
  \/ \E id \in Users : RedeemReward(id, "Sticker", TRUE)
  \/ SetDailyLimit(1, TRUE)
  \/ AddValue(" Kudos ", TRUE)
  \/ RemoveValue("kudos", TRUE)
  \/ AddReward("Sticker", 1, TRUE)
  \/ RemoveReward("Sticker", TRUE)
  \/ ResetRewards(TRUE)
  \/ ResetValues(TRUE)

Spec == Init /\ [][Next]_vars

(***************************************************************************)
(* SpecGive: the giving side, with the daily limit changing.  U1 gives, to *)
(* U2 or to itself (the Ledger does not refuse giver = receiver); U2 is    *)
(* the giver that never gave: unknown to the store, or a zero record.      *)
(***************************************************************************)
NextGive ==
  \/ DayChange
  \/ \E id \in Users, p \in 1..MaxPoints : CanGivePoints(id, p)
  \/ \E r \in Users, v \in Tags, p \in 1..MaxPoints : RecordRecognition("U1", r, v, p, TRUE)
  \/ \E l \in 1..MaxArg : SetDailyLimit(l, TRUE)

SpecGive == Init /\ [][NextGive]_vars

(***************************************************************************)
(* CommandService.redeemReward: several calls in flight, each suspended at *)
(* the await of its write                                                  *)
(***************************************************************************)
Redeemers == {1, 2}

RewardNames == {"Sticker", "Coffee Voucher", "Mug"}

IdleTask == [pc |-> "idle"]

\* CommandService.redeemReward: the reward exists and the balance suffices
commandMayRedeem(us, cfg, id, name, d) ==
  /\ getReward(cfg, name) # <<>>
  /\ ~(getUserRecord(us, id, d).total < getReward(cfg, name)[1].cost)

\* CommandService.redeemReward up to the await inside DataService.redeemReward
CommandRedeem(t, id, name) ==
  /\ tasks[t].pc = "idle"
  /\ UNCHANGED <<today, config, disk>>
  /\ IF ~commandMayRedeem(users, config, id, name, today)
     THEN /\ users' = IF getReward(config, name) = <<>> THEN users
                      ELSE materialise(users, id, today)
          /\ last' = noSave("command.redeemReward", "failure", Stale(users, id, today))
          /\ UNCHANGED <<tasks, redeemed>>
     ELSE /\ users' = redeemReward(materialise(users, id, today), config, id, name, today)
          /\ IF canRedeem(materialise(users, id, today), config, id, name, today)
             THEN /\ tasks' = [tasks EXCEPT ![t] = [pc |-> "awaitWrite", user |-> id,
                                                   snap |-> snapshot(config, users')]]
                  /\ redeemed' = [redeemed EXCEPT ![id] = @ + getReward(config, name)[1].cost]
                  /\ last' = saved("command.redeemReward", "pending", Stale(users, id, today))
             ELSE /\ last' = noSave("command.redeemReward", "failure", Stale(users, id, today))
                  /\ UNCHANGED <<tasks, redeemed>>

\* the write ends: the command returns success, or the rejection of
\* saveState() passes through it
CommandRedeemDone(t, ok) ==
  /\ tasks[t].pc = "awaitWrite"
  /\ tasks' = [tasks EXCEPT ![t] = IdleTask]
  /\ disk' = IF ok THEN <<tasks[t].snap>> ELSE disk
  /\ last' = IF ok THEN noSave("command.redeemReward", "success", FALSE)
             ELSE failedSave("command.redeemReward", FALSE)
  /\ UNCHANGED <<today, config, users, redeemed>>

InitRedeem ==
  /\ today = 1
  /\ config = DefaultConfig
  /\ users = EmptyMap
  /\ tasks = [t \in Redeemers |-> IdleTask]
  /\ last = noSave("constructor", "void", FALSE)
  /\ redeemed = [u \in Users |-> 0]
  /\ disk = <<>>

\* no call is suspended at its write
Quiet == \A t \in DOMAIN tasks : tasks[t].pc = "idle"

NextRedeem ==
  \/ Quiet /\ \E v \in Tags, p \in 1..MaxPoints : RecordRecognition("U2", "U1", v, p, TRUE)
  \/ Quiet /\ \E c \in 1..MaxArg : AddReward("Sticker", c, TRUE)
  \/ \E id \in Users : ResetUserPoints(id, TRUE)
  \/ \E id \in Users, name \in RewardNames, ok \in BOOLEAN : RedeemReward(id, name, ok)
  \/ \E t \in Redeemers, id \in Users, name \in RewardNames : CommandRedeem(t, id, name)
  \/ \E t \in Redeemers, ok \in BOOLEAN : CommandRedeemDone(t, ok)

SpecRedeem == InitRedeem /\ [][NextRedeem]_vars

(***************************************************************************)
(* Recognition Orchestrator: processRecognition, processRecognitions and   *)
(* processRecognitionsWithGroups on the candidates their parser returned.  *)
(* A handler in "loop" is running synchronous code: nothing else runs      *)
(* until it suspends at an await or returns.  U1 is the author of the      *)
(* messages, U2 the user they mention.                                     *)
(***************************************************************************)
MaxCands == 3      \* most candidates one message yields

\* the '+' runs the messages carry
PlusRuns == {1, 2, 3}

\* the author gives, and the mentioned user holds, at most the default limit
OrchCaps(us) ==
  \A u \in DOMAIN us :
    SumByValue(us[u]) <= DefaultDailyLimit /\ us[u].dailyGiven <= DefaultDailyLimit

Handlers == {1}

Modes == {"processRecognition", "processRecognitions", "processRecognitionsWithGroups"}

\* the candidate lists a parser may return for giver g (never the giver itself)
Candidates(g) == [receiver : Users \ {g}, value : {"general"}, points : PlusRuns]

RECURSIVE SeqsUpTo(_, _)
SeqsUpTo(S, n) ==
  IF n = 0 THEN {<<>>}
  ELSE LET shorter == SeqsUpTo(S, n - 1) IN
       shorter \cup {Append(q, x) : q \in {q \in shorter : Len(q) = n - 1}, x \in S}

CandidateLists(mode, g) ==
  SeqsUpTo(Candidates(g), IF mode = "processRecognition" THEN 1 ELSE MaxCands)

NoneRunning == \A t \in DOMAIN tasks : tasks[t].pc # "loop"

\* a message arrives: the parser runs; the group-aware mode suspends in it
Receive(t, mode, g, cands) ==
  /\ tasks[t].pc = "idle"
  /\ NoneRunning
  /\ tasks' = [tasks EXCEPT ![t] =
                 [pc |-> IF mode = "processRecognitionsWithGroups" THEN "awaitGroups" ELSE "loop",
                  giver |-> g, cands |-> cands, i |-> 1,
                  accepted |-> <<>>, decisions |-> <<>>, snap |-> <<>>]]
  /\ last' = noSave(mode, "parsed", FALSE)
  /\ UNCHANGED <<today, config, users, redeemed, disk>>

\* parseRecognitionsWithGroups returns
GroupsResolved(t) ==
  /\ tasks[t].pc = "awaitGroups"
  /\ NoneRunning
  /\ tasks' = [tasks EXCEPT ![t].pc = "loop"]
  /\ last' = noSave("processRecognitionsWithGroups", "parsed", FALSE)
  /\ UNCHANGED <<today, config, users, redeemed, disk>>

\* one turn of the loop: canGivePoints, then continue or recordRecognition
Check(t) ==
  LET g == tasks[t].giver
      c == tasks[t].cands[tasks[t].i]
      us == canGivePointsStore(users, g, today)
  IN /\ tasks[t].pc = "loop"
     /\ tasks[t].i <= Len(tasks[t].cands)
     /\ UNCHANGED <<today, config, redeemed, disk>>
     /\ IF canGivePoints(users, config, g, c.points, today)
        THEN /\ OrchCaps(recordRecognition(us, g, c.receiver, c.value, c.points, today))
             /\ users' = recordRecognition(us, g, c.receiver, c.value, c.points, today)
             /\ tasks' = [tasks EXCEPT
                  ![t].pc = "awaitWrite",
                  ![t].decisions = Append(@, TRUE),
                  ![t].snap = <<snapshot(config,
                     recordRecognitionSaves(us, g, c.receiver, c.value, c.points, today))>>]
             /\ last' = saved("recordRecognition", "void", Stale(users, g, today))
        ELSE /\ users' = us
             /\ tasks' = [tasks EXCEPT ![t].i = @ + 1,
                                       ![t].decisions = Append(@, FALSE)]
             /\ last' = noSave("canGivePoints", "false", Stale(users, g, today))

WrittenDropsCandidate(t) ==
  /\ tasks[t].pc = "awaitWrite"
  /\ NoneRunning
  /\ tasks' = [tasks EXCEPT ![t].pc = "loop", ![t].i = @ + 1, ![t].snap = <<>>]
  /\ disk' = tasks[t].snap
  /\ last' = noSave("process", "recorded", FALSE)
  /\ UNCHANGED <<today, config, users, redeemed>>

\* the write of recordRecognition completes: validRecognitions.push
Written(t) ==
  /\ tasks[t].pc = "awaitWrite"
  /\ NoneRunning
  /\ tasks' = [tasks EXCEPT ![t].pc = "loop",
                            ![t].accepted = Append(@, tasks[t].cands[tasks[t].i]),
                            ![t].i = @ + 1,
                            ![t].snap = <<>>]
  /\ disk' = tasks[t].snap
  /\ last' = noSave("process", "recorded", FALSE)
  /\ UNCHANGED <<today, config, users, redeemed>>

\* the loop is over: the accepted list is returned
Return(t) ==
  /\ tasks[t].pc = "loop"
  /\ tasks[t].i > Len(tasks[t].cands)
  /\ tasks' = [tasks EXCEPT ![t] = IdleTask]
  /\ last' = noSave("process", "returned", FALSE)
  /\ UNCHANGED <<today, config, users, redeemed, disk>>

\* the store file holds the daily limit an admin set in an earlier run
InitOrch ==
  /\ today = 1
  /\ \E l \in {1, DefaultDailyLimit} : config = [DefaultConfig EXCEPT !.dailyLimit = l]
  /\ users = EmptyMap
  /\ tasks = [t \in Handlers |-> IdleTask]
  /\ last = noSave("constructor", "void", FALSE)
  /\ redeemed = [u \in Users |-> 0]
  /\ disk = <<snapshot(config, users)>>

NextOrch ==
  \/ DayChange
  \/ \E t \in Handlers, mode \in Modes :
       \E cands \in CandidateLists(mode, "U1") : Receive(t, mode, "U1", cands)
  \/ \E t \in Handlers : GroupsResolved(t)
  \/ \E t \in Handlers : Check(t)
  \/ \E t \in Handlers : Written(t)
  \/ \E t \in Handlers : Return(t)

SpecOrch == InitOrch /\ [][NextOrch]_vars

(***************************************************************************)
(* SpecSave: the Ledger's calls of one day, one at a time, each write      *)
(* succeeding or failing.  U1 gives to U2; the data file does not exist at *)
(* the start.                                                              *)
(***************************************************************************)
\* the file holds everything of the in-memory state but records created lazily
\* since the last write (or there is no file yet)
FileBehindByLazyRecords ==
  \/ disk = <<>>
  \/ /\ disk[1].config = config
     /\ DOMAIN disk[1].users \subseteq DOMAIN users
     /\ \A u \in DOMAIN disk[1].users : users[u] = disk[1].users[u]

\* the outcomes of a write: it fails only on such a file, so that no two
\* failed writes follow each other without a successful one between them
Outcomes == IF FileBehindByLazyRecords THEN BOOLEAN ELSE {TRUE}

NextSave ==
  \/ \E id \in Users : GetUserRecord(id)
  \/ \E p \in 1..MaxPoints, ok \in Outcomes : RecordRecognition("U1", "U2", "teamwork", p, ok)
  \/ \E id \in Users, ok \in Outcomes : ResetUserPoints(id, ok)
  \/ \E ok \in Outcomes : RedeemReward("U2", "Sticker", ok)
  \/ \E ok \in Outcomes : SetDailyLimit(1, ok)
  \/ \E ok \in Outcomes : AddValue(" Kudos ", ok)
  \/ \E ok \in Outcomes : RemoveValue("kudos", ok)
  \/ \E ok \in Outcomes : AddReward("Sticker", 1, ok)
  \/ \E ok \in Outcomes : RemoveReward("Sticker", ok)
  \/ \E ok \in Outcomes : ResetRewards(ok)
  \/ \E ok \in Outcomes : ResetValues(ok)

SpecSave == Init /\ [][NextSave]_vars

(***************************************************************************)
(* SpecDay: reads, resets and recognitions over the days, each write       *)
(* succeeding or failing                                                   *)
(***************************************************************************)
NextDay ==
  \/ DayChange
  \/ \E id \in Users : GetUserRecord(id)
  \/ \E v \in Tags, p \in 1..MaxPoints, ok \in Outcomes : RecordRecognition("U1", "U2", v, p, ok)
  \/ \E id \in Users, ok \in Outcomes : ResetUserPoints(id, ok)
  \/ \E ok \in Outcomes : SetDailyLimit(1, ok)

SpecDay == Init /\ [][NextDay]_vars

(***************************************************************************)
(* The values the getters return.  { ...obj } and [ ...arr ] make a new    *)
(* object with the properties (elements) of the old one: a property that   *)
(* holds an object holds, in the copy, the same object.  A caller's write  *)
(* is a path into the returned value and the value stored there: a path of *)
(* length 1 stores into the copy, a longer one into an object the copy     *)
(* shares with the Ledger's state.                                         *)
(***************************************************************************)
\* state.config after a write into the value of getConfig():
\* <<"dailyLimit">>, <<"values", "push">> or <<"rewards", i, "cost">>
callerWritesConfig(cfg, path, x) ==
  IF Len(path) = 1 THEN cfg
  ELSE IF path[1] = "values" THEN [cfg EXCEPT !.values = Append(@, x)]
  ELSE [cfg EXCEPT !.rewards[path[2]].cost = x]

\* state.config after a write into the value of getRewards(): <<i>> or <<i, "cost">>
callerWritesRewards(cfg, path, x) ==
  IF Len(path) = 1 THEN cfg ELSE [cfg EXCEPT !.rewards[path[1]].cost = x]

\* state.users after a write into the value of getUserRecord(id):
\* <<"total">> or <<"byValue", v>>
callerWritesRecord(us, id, path, x) ==
  IF Len(path) = 1 THEN us ELSE [us EXCEPT ![id].byValue = Put(@, path[2], x)]

\* state.users after a write into the value of getAllUsers(): <<id>> or <<id, "total">>
callerWritesAllUsers(us, path, x) ==
  IF Len(path) = 1 THEN us ELSE [us EXCEPT ![path[1]].total = x]

ConfigPaths ==
  {<<"dailyLimit">>, <<"values", "push">>}
    \cup {<<"rewards", i, "cost">> : i \in 1..Len(config.rewards)}

RewardsPaths ==
  {<<i>> : i \in 1..Len(config.rewards)} \cup {<<i, "cost">> : i \in 1..Len(config.rewards)}

RecordPaths == {<<"total">>, <<"byValue", "teamwork">>}

AllUsersPaths == {<<id>> : id \in DOMAIN users} \cup {<<id, "total">> : id \in DOMAIN users}

\* a caller takes getConfig() and stores x at path
CallerWritesConfig(path, x) ==
  /\ path[1] = "values" => ~includes(config.values, x)
  /\ config' = callerWritesConfig(config, path, x)
  /\ last' = noSave("getConfig", "written to", FALSE)
  /\ UNCHANGED <<today, users, tasks, redeemed, disk>>

\* a caller takes getRewards() and stores x at path
CallerWritesRewards(path, x) ==
  /\ config' = callerWritesRewards(config, path, x)
  /\ last' = noSave("getRewards", "written to", FALSE)
  /\ UNCHANGED <<today, users, tasks, redeemed, disk>>

\* a caller takes getUserRecord(id) and stores x at path
CallerWritesRecord(id, path, x) ==
  /\ users' = callerWritesRecord(materialise(users, id, today), id, path, x)
  /\ last' = noSave("getUserRecord", "written to", Stale(users, id, today))
  /\ UNCHANGED <<today, config, tasks, redeemed, disk>>

\* a caller takes getAllUsers() and stores x at path
CallerWritesAllUsers(path, x) ==
  /\ users' = callerWritesAllUsers(users, path, x)
  /\ last' = noSave("getAllUsers", "written to", FALSE)
  /\ UNCHANGED <<today, config, tasks, redeemed, disk>>

\* what the callers store into the value of getConfig(): a tag or a number
StoredInConfig(path) ==
  IF path[1] = "values" THEN {"kudos", "thanks"} ELSE 0..MaxArg

NextCopy ==
  \/ \E path \in ConfigPaths : \E x \in StoredInConfig(path) : CallerWritesConfig(path, x)
  \/ \E path \in RewardsPaths, x \in 0..MaxArg : CallerWritesRewards(path, x)
  \/ \E id \in Users, path \in RecordPaths, x \in 0..MaxArg : CallerWritesRecord(id, path, x)
  \/ \E path \in AllUsersPaths, x \in 0..MaxArg : CallerWritesAllUsers(path, x)

SpecCopy == Init /\ [][NextCopy]_vars

(***************************************************************************)
(* Claims about the Ledger's calls                                         *)
(***************************************************************************)
\* the record a call finds for id: the stored one, or the zero record of today
Found(id) == IF id \in DOMAIN users THEN users[id] ELSE NewRecord(today)

\* byValue[v], 0 when the entry is absent
Entry(rec, v) == IF v \in DOMAIN rec.byValue THEN rec.byValue[v] ELSE 0

\* C3: canGivePoints(giver, points) returns true if and only if the giver's
\* lastReset is not today or dailyGiven + points <= dailyLimit, an unknown
\* giver counting as a zero record of today.
C3_CanGivePointsIff ==
  [][last'.op = "canGivePoints" => \A g \in Users, p \in 1..MaxPoints :
       CanGivePoints(g, p) =>
         ((last'.ret = "true") <=>
            (Found(g).lastReset # today \/ Found(g).dailyGiven + p <= config.dailyLimit))]_vars

\* canGivePoints has denied a giver whose window is today's
C3_Witness ==
  /\ last.op = "canGivePoints"
  /\ last.ret = "false"
  /\ \E g \in DOMAIN users : users[g].lastReset = today /\ users[g].dailyGiven >= 1

\* C4 as stated: recordRecognition adds exactly p to the receiver's total and
\* byValue[v] and exactly p to the giver's dailyGiven, from any ledger state.
C4_Original ==
  [][last'.op = "recordRecognition" =>
     \A g \in Users, r \in Users, v \in Tags, p \in 1..MaxPoints :
       RecordRecognition(g, r, v, p, TRUE) =>
         /\ users'[r].total = Found(r).total + p
         /\ users'[r].byValue[v] = Entry(Found(r), v) + p
         /\ users'[g].dailyGiven = Found(g).dailyGiven + p]_vars

\* C4 amended: recordRecognition adds exactly p to the receiver's total and
\* byValue[v]; it adds exactly p to the giver's dailyGiven when the giver's
\* lastReset is today (or the giver is unknown), and leaves dailyGiven = p when
\* the giver's stored lastReset is not today.
C4_RecordAddsPoints ==
  [][last'.op = "recordRecognition" =>
     \A g \in Users, r \in Users, v \in Tags, p \in 1..MaxPoints :
       RecordRecognition(g, r, v, p, TRUE) =>
         /\ users'[r].total = Found(r).total + p
         /\ users'[r].byValue[v] = Entry(Found(r), v) + p
         /\ users'[g].dailyGiven =
              (IF Found(g).lastReset = today THEN Found(g).dailyGiven ELSE 0) + p]_vars

\* a recognition was recorded onto a receiver who already held points
C4_Witness ==
  /\ last.op = "recordRecognition"
  /\ \E r \in DOMAIN users : users[r].total >= 2 /\ DOMAIN users[r].byValue # {}
  /\ \E g \in DOMAIN users : users[g].dailyGiven >= 1

\* C5: recordRecognition for a giver whose stored lastReset differs from today
\* leaves dailyGiven = the points of this recognition and lastReset = today;
\* when lastReset is already today nothing is reset.
C5_RollOverOnRecord ==
  [][last'.op = "recordRecognition" =>
     \A g \in Users, r \in Users, v \in Tags, p \in 1..MaxPoints :
       (RecordRecognition(g, r, v, p, TRUE) /\ g \in DOMAIN users) =>
         IF users[g].lastReset # today
         THEN users'[g].dailyGiven = p /\ users'[g].lastReset = today
         ELSE users'[g].dailyGiven = users[g].dailyGiven + p
              /\ users'[g].lastReset = users[g].lastReset]_vars

\* a recognition was recorded for a giver whose window was stale
C5_Witness ==
  /\ last.op = "recordRecognition"
  /\ last.stale
  /\ \E g \in DOMAIN users : users[g].lastReset = today /\ users[g].dailyGiven >= 1

C7_Original ==
  [][\A u \in DOMAIN users :
       (users[u].lastReset # today /\ users'[u].lastReset = today') =>
         \E r \in Users, v \in Tags, p \in 1..MaxPoints : RecordRecognition(u, r, v, p, TRUE)]_vars

\* C7 amended: a stale lastReset becomes today only by recordRecognition with
\* that user as giver or by resetUserPoints for that user.
C7_StaleToWithin ==
  [][\A u \in DOMAIN users :
       (users[u].lastReset # today /\ users'[u].lastReset = today') =>
         \/ \E r \in Users, v \in Tags, p \in 1..MaxPoints : RecordRecognition(u, r, v, p, TRUE)
         \/ ResetUserPoints(u, TRUE)]_vars

\* resetUserPoints has brought a stale record into today's window
C7_Witness ==
  /\ last.op = "resetUserPoints"
  /\ last.stale
  /\ \E u \in DOMAIN users : users[u].lastReset = today /\ today > 1

\* C8 as stated: every record has total = sum of byValue.
C8_Original == \A u \in DOMAIN users : users[u].total = SumByValue(users[u])

\* C8 amended: every record has total = sum of byValue minus the cost of the
\* rewards the user redeemed since their last reset.
C8_TotalIsSumLessRedeemed ==
  \A u \in DOMAIN users : users[u].total = SumByValue(users[u]) - redeemed[u]

\* a user holds points under two values and has redeemed some
C8_Witness ==
  \E u \in DOMAIN users :
    /\ redeemed[u] >= 1
    /\ Cardinality(DOMAIN users[u].byValue) = 2
    /\ users[u].total >= 1

(***************************************************************************)
(* Claims about the orchestrator                                           *)
(***************************************************************************)
\* C1: with dailyLimit unchanged, after any sequence of process calls and day
\* changes, every record whose lastReset is today has dailyGiven <= dailyLimit.
C1_DailyLimitHolds ==
  \A u \in DOMAIN users :
    users[u].lastReset = today => users[u].dailyGiven <= config.dailyLimit

\* C2: for a giver whose lastReset is today, a candidate is accepted and
\* recorded exactly when dailyGiven + points <= dailyLimit at that moment; a
\* rejected candidate changes no record, saves nothing, and the loop goes on
\* to the next candidate.
C2_AcceptIffWithinLimit ==
  [][\A t \in Handlers :
       (Check(t) /\ tasks[t].giver \in DOMAIN users
                 /\ users[tasks[t].giver].lastReset = today) =>
         LET g == tasks[t].giver
             pts == tasks[t].cands[tasks[t].i].points
         IN IF users[g].dailyGiven + pts <= config.dailyLimit
            THEN /\ users'[g].dailyGiven = users[g].dailyGiven + pts
                 /\ last'.op = "recordRecognition"
                 /\ last'.write = "save"
                 /\ tasks'[t].pc = "awaitWrite"
            ELSE /\ users' = users
                 /\ last'.write = "none"
                 /\ tasks'[t].pc = "loop"
                 /\ tasks'[t].i = tasks[t].i + 1
                 /\ tasks'[t].accepted = tasks[t].accepted]_vars

\* the spec's example: under dailyLimit 5 and dailyGiven 0, candidates of 3, 3
\* and 2 points were accepted, rejected, accepted, leaving dailyGiven = 5
C2_Witness ==
  \E t \in Handlers :
    /\ config.dailyLimit = 5
    /\ tasks[t].pc = "loop"
    /\ tasks[t].i = 4
    /\ <<tasks[t].cands[1].points, tasks[t].cands[2].points, tasks[t].cands[3].points>>
         = <<3, 3, 2>>
    /\ tasks[t].decisions = <<TRUE, FALSE, TRUE>>
    /\ tasks[t].accepted = <<tasks[t].cands[1], tasks[t].cands[3]>>
    /\ users[tasks[t].giver].lastReset = today
    /\ users[tasks[t].giver].dailyGiven = 5

(***************************************************************************)
(* Claims about redemption                                                 *)
(***************************************************************************)
\* the reward name is in Config.rewards
Listed(name) == \E i \in 1..Len(config.rewards) : config.rewards[i].name = name

\* the cost of the listed reward of that name
CostOf(name) ==
  config.rewards[CHOOSE i \in 1..Len(config.rewards) : config.rewards[i].name = name].cost

\* C9 as stated: redeemReward returns false, leaves the in-memory state
\* unchanged and saves nothing when the reward is not listed or the total is
\* below its cost; otherwise it lowers the total by the cost, saves, returns true.
C9_Original ==
  [][last'.op = "redeemReward" => \A id \in Users, name \in RewardNames, ok \in BOOLEAN :
       RedeemReward(id, name, ok) =>
         IF ~Listed(name) \/ Found(id).total < CostOf(name)
         THEN /\ last'.ret = "false"
              /\ last'.write = "none"
              /\ users' = users
              /\ config' = config
         ELSE /\ last'.ret = "true"
              /\ last'.write = "save"
              /\ users'[id].total = users[id].total - CostOf(name)]_vars

\* C9 amended: in the refused case redeemReward returns false, saves nothing
\* and leaves Config and every existing record unchanged; the one change it
\* can make is to add the zero record of a user not yet in the store, when the
\* reward is listed.  Otherwise it lowers the total by exactly the cost and
\* saves: it returns true when the write succeeds and throws, the deduction
\* staying in memory, when the write fails.
C9_RedeemReward ==
  [][last'.op = "redeemReward" => \A id \in Users, name \in RewardNames, ok \in BOOLEAN :
       RedeemReward(id, name, ok) =>
         IF ~Listed(name) \/ Found(id).total < CostOf(name)
         THEN /\ last'.ret = "false"
              /\ last'.write = "none"
              /\ config' = config
              /\ \A u \in DOMAIN users : users'[u] = users[u]
              /\ users' # users =>
                   /\ Listed(name)
                   /\ id \notin DOMAIN users
                   /\ DOMAIN users' = DOMAIN users \cup {id}
                   /\ users'[id] = NewRecord(today)
         ELSE /\ \/ last'.ret = "true" /\ last'.write = "save" /\ ok
                 \/ last'.ret = "throws" /\ last'.write = "failed" /\ ~ok
              /\ users'[id].total = users[id].total - CostOf(name)
              /\ \A u \in DOMAIN users \ {id} : users'[u] = users[u]]_vars

\* a redemption went through and left points on the account
C9_Witness ==
  /\ last.op = "redeemReward"
  /\ last.ret = "true"
  /\ \E u \in DOMAIN users : redeemed[u] >= 1 /\ users[u].total >= 1

\* C10: with every reward cost >= 1 no total is ever negative, also with
\* several redemptions of one user in flight: what was redeemed never exceeds
\* what was received.
C10_TotalNeverNegative ==
  \A u \in DOMAIN users :
    users[u].total >= 0 /\ redeemed[u] <= SumByValue(users[u])

\* two redemptions of the same user are in flight and have used up the balance
C10_Witness ==
  /\ tasks[1].pc = "awaitWrite"
  /\ tasks[2].pc = "awaitWrite"
  /\ tasks[1].user = tasks[2].user
  /\ users[tasks[1].user].total = 0
  /\ redeemed[tasks[1].user] >= 2

(***************************************************************************)
(* Claims about persistence                                                *)
(***************************************************************************)
\* a mutating Ledger call whose write fails
FailedCall ==
  \/ /\ last'.op = "recordRecognition"
     /\ \E g \in Users, r \in Users, v \in Tags, p \in 1..MaxPoints :
          RecordRecognition(g, r, v, p, FALSE)
  \/ last'.op = "resetUserPoints" /\ \E id \in Users : ResetUserPoints(id, FALSE)
  \/ last'.op = "redeemReward" /\ \E id \in Users : RedeemReward(id, "Sticker", FALSE)
  \/ last'.op = "setDailyLimit" /\ SetDailyLimit(1, FALSE)
  \/ last'.op = "addValue" /\ AddValue(" Kudos ", FALSE)
  \/ last'.op = "removeValue" /\ RemoveValue("kudos", FALSE)
  \/ last'.op = "addReward" /\ AddReward("Sticker", 1, FALSE)
  \/ last'.op = "removeReward" /\ RemoveReward("Sticker", FALSE)
  \/ last'.op = "resetRewards" /\ ResetRewards(FALSE)
  \/ last'.op = "resetValues" /\ ResetValues(FALSE)

\* C11: whenever the write fails during a mutating Ledger operation, the
\* operation rejects with 'Failed to save data'; it never completes normally
\* or returns a success value.
C11_FailedWriteRejects ==
  [][disk' = disk => (FailedCall => (last'.ret = "throws" /\ last'.write = "failed"))]_vars

\* the write of a recordRecognition failed after an earlier write had succeeded
C11_Witness ==
  /\ last.op = "recordRecognition"
  /\ last.ret = "throws"
  /\ disk # <<>>
  /\ "U2" \in DOMAIN users /\ users["U2"].total >= 1

\* the in-memory state after the failed call is the one the call computes
AppliedInMemory ==
  /\ last'.op = "recordRecognition" =>
       \A g \in Users, r \in Users, v \in Tags, p \in 1..MaxPoints :
         RecordRecognition(g, r, v, p, FALSE) =>
           (users' = recordRecognition(users, g, r, v, p, today) /\ config' = config)
  /\ last'.op = "resetUserPoints" =>
       \A id \in Users :
         ResetUserPoints(id, FALSE) =>
           (users' = resetUserPoints(users, id, today) /\ config' = config)
  /\ last'.op = "redeemReward" =>
       \A id \in Users :
         RedeemReward(id, "Sticker", FALSE) =>
           (users'[id].total = users[id].total - CostOf("Sticker") /\ config' = config)
  /\ (last'.op = "setDailyLimit" /\ SetDailyLimit(1, FALSE)) =>
       (config'.dailyLimit = 1 /\ users' = users)
  /\ (last'.op = "addValue" /\ AddValue(" Kudos ", FALSE)) =>
       (includes(config'.values, "kudos") /\ users' = users)
  /\ (last'.op = "removeValue" /\ RemoveValue("kudos", FALSE)) =>
       (~includes(config'.values, "kudos") /\ users' = users)
  /\ (last'.op = "addReward" /\ AddReward("Sticker", 1, FALSE)) =>
       (getReward(config', "Sticker") = <<[name |-> "Sticker", cost |-> 1]>> /\ users' = users)
  /\ (last'.op = "removeReward" /\ RemoveReward("Sticker", FALSE)) =>
       (getReward(config', "Sticker") = <<>> /\ users' = users)
  /\ (last'.op = "resetRewards" /\ ResetRewards(FALSE)) =>
       (config'.rewards = <<>> /\ users' = users)
  /\ (last'.op = "resetValues" /\ ResetValues(FALSE)) =>
       (config'.values = DefaultValues /\ users' = users)

\* C12 as stated: when the save of a mutating operation fails the mutation
\* stays in memory, and the in-memory state then differs from the last
\* persisted snapshot by exactly that operation's change: the snapshot is the
\* state the operation started from.
C12_Original ==
  [][disk' = disk => ((FailedCall /\ disk # <<>>) =>
       (AppliedInMemory /\ disk' = <<snapshot(config, users)>>))]_vars

\* C12 amended: when the save fails the mutation stays in memory and the
\* file stays as it was; the two then differ by exactly that operation's
\* change when they were equal before the operation.
C12_FailedSaveKeepsMutation ==
  [][last'.write # "none" => (FailedCall =>
       /\ AppliedInMemory
       /\ disk' = disk
       /\ disk = <<snapshot(config, users)>> => disk' = <<snapshot(config, users)>>)]_vars

\* a failed reset left the file with the points the memory no longer has
C12_Witness ==
  /\ last.op = "resetUserPoints"
  /\ last.write = "failed"
  /\ disk # <<>>
  /\ "U2" \in DOMAIN disk[1].users
  /\ disk[1].users["U2"].total >= 1
  /\ users["U2"].total = 0

\* C13: each recordRecognition call issues exactly one write, after the
\* giver's and the receiver's updates, and what it writes is the complete
\* AppState as it stands after those updates.
C13_RecordWritesOnceWhole ==
  [][last'.op = "recordRecognition" =>
     \A g \in Users, r \in Users, v \in Tags, p \in 1..MaxPoints, ok \in BOOLEAN :
       RecordRecognition(g, r, v, p, ok) =>
         /\ last'.write = (IF ok THEN "save" ELSE "failed")
         /\ ok => disk' = <<[config |-> config', users |-> users']>>
         /\ ~ok => disk' = disk]_vars

\* a recognition was written: the file holds the giver's and the receiver's
\* records as they are in memory
C13_Witness ==
  /\ last.op = "recordRecognition"
  /\ last.write = "save"
  /\ disk = <<[config |-> config, users |-> users]>>
  /\ users["U1"].dailyGiven >= 2
  /\ users["U2"].total >= 2

\* a call of one of the seven Config mutators
ConfigMutatorCall ==
  \E ok \in BOOLEAN :
    \/ last'.op = "setDailyLimit" /\ SetDailyLimit(1, ok)
    \/ last'.op = "addValue" /\ AddValue(" Kudos ", ok)
    \/ last'.op = "removeValue" /\ RemoveValue("kudos", ok)
    \/ last'.op = "addReward" /\ AddReward("Sticker", 1, ok)
    \/ last'.op = "removeReward" /\ RemoveReward("Sticker", ok)
    \/ last'.op = "resetRewards" /\ ResetRewards(ok)
    \/ last'.op = "resetValues" /\ ResetValues(ok)

\* C14 as stated: every call of a Config mutator persists the state with
\* exactly one write, for every argument and every prior Config.
C14_Original == [][ConfigMutatorCall => last'.write # "none"]_vars

\* C14 amended: a Config mutator changes its own part of Config only and
\* issues exactly one write of the whole state, except addValue of a value
\* whose lower-cased, trimmed form is already listed, which changes nothing
\* and issues no write.
C14_ConfigMutatorsWriteOnce ==
  [][ConfigMutatorCall =>
       /\ users' = users
       /\ last'.op = "setDailyLimit" =>
            (config'.values = config.values /\ config'.rewards = config.rewards)
       /\ last'.op \in {"addValue", "removeValue", "resetValues"} =>
            (config'.dailyLimit = config.dailyLimit /\ config'.rewards = config.rewards)
       /\ last'.op \in {"addReward", "removeReward", "resetRewards"} =>
            (config'.dailyLimit = config.dailyLimit /\ config'.values = config.values)
       /\ IF last'.op = "addValue" /\ includes(config.values, "kudos")
          THEN config' = config /\ last'.write = "none" /\ disk' = disk
          ELSE /\ last'.write \in {"save", "failed"}
               /\ last'.write = "save" => disk' = <<[config |-> config', users |-> users]>>
               /\ last'.write = "failed" => disk' = disk]_vars

\* addValue of a value already listed returned without a write
C14_Witness ==
  /\ last.op = "addValue"
  /\ last.write = "none"
  /\ includes(config.values, "kudos")
  /\ disk # <<>>

(***************************************************************************)
(* Claims about resets and reads                                           *)
(***************************************************************************)
\* C15: resetUserPoints(id) sets that user's total to 0, byValue to empty,
\* dailyGiven to 0 and lastReset to today, creating the record if absent, and
\* persists; Config and every other user's record are unchanged.
C15_ResetUserPoints ==
  [][last'.op = "resetUserPoints" => \A id \in Users, ok \in BOOLEAN :
       ResetUserPoints(id, ok) =>
         /\ DOMAIN users' = DOMAIN users \cup {id}
         /\ users'[id] = [total |-> 0, byValue |-> EmptyMap,
                          dailyGiven |-> 0, lastReset |-> today]
         /\ \A u \in DOMAIN users \ {id} : users'[u] = users[u]
         /\ config' = config
         /\ last'.write = (IF ok THEN "save" ELSE "failed")
         /\ ok => disk' = <<[config |-> config, users |-> users']>>]_vars

\* a user who held points of an earlier day was reset and the reset written,
\* next to a giver whose record stands
C15_Witness ==
  /\ last.op = "resetUserPoints"
  /\ last.write = "save"
  /\ last.stale
  /\ "U2" \in DOMAIN users /\ users["U2"].total = 0 /\ users["U2"].lastReset = today
  /\ "U1" \in DOMAIN users /\ users["U1"].dailyGiven >= 1 /\ users["U1"].lastReset # today
  /\ disk = <<[config |-> config, users |-> users]>>

\* C17: getUserRecord of an unknown id adds the zero record of today to the
\* in-memory store and writes nothing, the file not holding the record; for a
\* known id it changes nothing; every later successful write holds all
\* records of the store, so the record is on file from the next one on.
C17_GetUserRecordLazy ==
  [][/\ last'.op = "getUserRecord" => \A id \in Users :
          GetUserRecord(id) =>
            /\ config' = config /\ disk' = disk /\ last'.write = "none"
            /\ IF id \in DOMAIN users THEN users' = users
               ELSE /\ DOMAIN users' = DOMAIN users \cup {id}
                    /\ users'[id] = [total |-> 0, byValue |-> EmptyMap,
                                     dailyGiven |-> 0, lastReset |-> today]
                    /\ \A u \in DOMAIN users : users'[u] = users[u]
                    /\ disk = <<>> \/ id \notin DOMAIN disk[1].users
     /\ last'.write = "save" => (disk' # <<>> /\ disk'[1].users = users')]_vars

\* a record created by a read on the second day is in memory and not on file
C17_Witness ==
  /\ last.op = "getUserRecord"
  /\ today = 2
  /\ "U2" \in DOMAIN users
  /\ users["U2"] = [total |-> 0, byValue |-> EmptyMap, dailyGiven |-> 0, lastReset |-> 2]
  /\ disk # <<>>
  /\ "U2" \notin DOMAIN disk[1].users

\* a caller wrote into a value a getter returned
CallerWrote == last'.ret = "written to"

\* C16: the values getConfig, getUserRecord, getAllUsers and getRewards return
\* are copies: whatever a caller stores in one, Config and every record in
\* the Ledger's state stay as they were.
C16_GettersReturnCopies ==
  [][CallerWrote => (config' = config /\ \A u \in DOMAIN users : users'[u] = users[u])]_vars

(***************************************************************************)
(* Claims about the loop of the orchestrator                               *)
(***************************************************************************)
\* the candidates at the positions the decisions accepted, in their order
RECURSIVE Picked(_, _)
Picked(cands, dec) ==
  IF dec = <<>> THEN <<>>
  ELSE LET n == Len(dec)
           before == Picked(cands, SubSeq(dec, 1, n - 1))
       IN IF dec[n] THEN Append(before, cands[n]) ELSE before

\* C18: the accepted list is the subsequence of the parser's candidates that
\* canGivePoints allowed, in the parser's order; each turn of the loop calls
\* recordRecognition with its candidate when canGivePoints allowed it, once,
\* and not at all when canGivePoints denied it.
C18_AcceptedInParserOrder ==
  [][\A t \in Handlers :
       /\ tasks'[t].pc \in {"loop", "awaitWrite"} =>
            /\ Len(tasks'[t].decisions) =
                 (IF tasks'[t].pc = "awaitWrite" THEN tasks'[t].i ELSE tasks'[t].i - 1)
            /\ tasks'[t].accepted =
                 Picked(tasks'[t].cands, SubSeq(tasks'[t].decisions, 1, tasks'[t].i - 1))
       /\ Check(t) =>
            LET g == tasks[t].giver
                c == tasks[t].cands[tasks[t].i]
                allowed == Found(g).lastReset # today
                             \/ Found(g).dailyGiven + c.points <= config.dailyLimit
            IN /\ tasks'[t].decisions = Append(tasks[t].decisions, allowed)
               /\ allowed <=> last'.op = "recordRecognition"
               /\ allowed => /\ users'[g].dailyGiven =
                                  (IF Found(g).lastReset = today
                                   THEN Found(g).dailyGiven ELSE 0) + c.points
                              /\ users'[c.receiver].total = Found(c.receiver).total + c.points
                              /\ tasks'[t].i = tasks[t].i
               /\ ~allowed => \A u \in DOMAIN users : users'[u] = users[u]
       /\ (tasks[t].pc = "awaitWrite" /\ tasks'[t].pc = "awaitWrite") => users' = users]_vars

\* of three candidates the first and the last were denied and the second one
\* accepted: the accepted list holds the second alone
C18_Witness ==
  \E t \in Handlers :
    /\ tasks[t].pc = "loop"
    /\ tasks[t].i = 4
    /\ tasks[t].decisions = <<FALSE, TRUE, FALSE>>
    /\ tasks[t].accepted = <<tasks[t].cands[2]>>

(***************************************************************************)
(* RecognitionService: the three parsers.  A message text is the sequence  *)
(* of its lexical tokens: an individual mention <@ID>, a group reference   *)
(* <!subteam^ID>, a '+', a blank, a word character "w" of free text, or a  *)
(* '#' with the word that follows it.  Ids are written in upper case, as   *)
(* the workspace issues them, and a text is one line.                      *)
(***************************************************************************)
MaxText == 3
MaxReason == 4

MentionTokens == {"<@U1>", "<@U2>", "<@U3>"}
GroupTokens == {"<!subteam^G1>"}
TagTokens == {"#teamwork", "#bogus", "#TeamWork", "#general"}
Space == {" "}
Plus == {"+"}
\* [^<#]
NotAngleOrHash == {"+", " ", "w"}
Alphabet ==
  {"<@U1>", "<@U2>"} \cup GroupTokens \cup {"#teamwork", "#bogus"} \cup NotAngleOrHash

\* the capture of <@([A-Z0-9]+)>
mentionId(tok) ==
  CASE tok = "<@U1>" -> "U1"
    [] tok = "<@U2>" -> "U2"
    [] OTHER -> "U3"

\* the capture of <!subteam\^([A-Z0-9]+)>
groupId(tok) == "G1"

\* the capture of #(\w+)
tagWord(tok) ==
  CASE tok = "#teamwork" -> "teamwork"
    [] tok = "#TeamWork" -> "TeamWork"
    [] tok = "#general" -> "general"
    [] OTHER -> "bogus"

Least(S) == CHOOSE x \in S : \A y \in S : x <= y
Greatest(S) == CHOOSE x \in S : \A y \in S : y <= x

\* how many tokens of class S stand in a row from position i on
RECURSIVE RunFrom(_, _, _)
RunFrom(txt, i, S) ==
  IF i > Len(txt) THEN 0
  ELSE IF txt[i] \notin S THEN 0
  ELSE 1 + RunFrom(txt, i + 1, S)

Slice(txt, a, b) == IF a > b THEN <<>> ELSE SubSeq(txt, a, b)

\* String.prototype.trim
trim(s) ==
  LET solid == {i \in 1..Len(s) : s[i] \notin Space}
  IN IF solid = {} THEN <<>> ELSE SubSeq(s, Least(solid), Greatest(solid))

\* valueTag ? valueTag.toLowerCase().trim() : 'general'
valueOf(tag) == IF tag = <<>> THEN "general" ELSE normalize(tag[1])

unknownValueNoDefault(cfg, value) == ~includes(cfg.values, value)

\* value !== 'general' && !config.values.includes(value)
unknownValue(cfg, value) == value # "general" /\ ~includes(cfg.values, value)

\* text.match(/<@([A-Z0-9]+)>\s*(\+{1,})\s*(.*?)(?:\s*#(\w+))?$/i): the
\* leftmost mention that blanks and a '+' follow; the whole '+' run; the lazy
\* reason runs to the end of the text, or to a '#word' that ends the text
matchSingle(txt) ==
  LET starts == {s \in 1..Len(txt) :
                   /\ txt[s] \in MentionTokens
                   /\ RunFrom(txt, s + 1 + RunFrom(txt, s + 1, Space), Plus) >= 1}
  IN IF starts = {} THEN <<>>
     ELSE LET s == Least(starts)
              j == s + 1 + RunFrom(txt, s + 1, Space)
              k == RunFrom(txt, j, Plus)
              q == j + k + RunFrom(txt, j + k, Space)
              tagged == q <= Len(txt) /\ txt[Len(txt)] \in TagTokens
          IN <<[receiver |-> mentionId(txt[s]),
                plus |-> k,
                reasonText |-> IF tagged THEN Slice(txt, q, Len(txt) - 1)
                               ELSE Slice(txt, q, Len(txt)),
                tag |-> IF tagged THEN <<tagWord(txt[Len(txt)])>> ELSE <<>>]>>

\* parseRecognition: null is the empty sequence
parseRecognition(text, giverId, cfg) ==
  LET m == matchSingle(text) IN
  IF m = <<>> THEN <<>>
  ELSE IF trim(m[1].reasonText) = <<>> /\ m[1].tag = <<>> THEN <<>>
  ELSE IF trim(m[1].reasonText) = <<>> THEN <<>>
  ELSE IF m[1].receiver = giverId THEN <<>>
  ELSE IF unknownValue(cfg, valueOf(m[1].tag)) THEN <<>>
  ELSE <<[receiver |-> m[1].receiver, value |-> valueOf(m[1].tag),
          points |-> m[1].plus, reason |-> trim(m[1].reasonText)]>>

\* one match of the multi-target pattern at position s,
\*   ((?:target)+)\s*(\+{1,})\s*([^<#]+?)(?:#(\w+))?(?=\s*(?:target-start)|$)
\* with the regex engine's order of preference: the longest '+' run, then
\* the most blanks before the reason, then the shortest reason, then the tag
unitAt(txt, s, heads) ==
  IF s > Len(txt) THEN <<>>
  ELSE IF txt[s] \notin heads THEN <<>>
  ELSE
  LET m == RunFrom(txt, s, heads)
      j == s + m + RunFrom(txt, s + m, Space)
      P == RunFrom(txt, j, Plus)
      lookahead(end) ==
        \/ end = Len(txt)
        \/ LET a == end + 1 + RunFrom(txt, end + 1, Space)
           IN a <= Len(txt) /\ txt[a] \in heads
      tagAfter(e) == IF e + 1 > Len(txt) THEN FALSE ELSE txt[e + 1] \in TagTokens
      fits(e, tg) == IF tg THEN tagAfter(e) /\ lookahead(e + 1) ELSE lookahead(e)
      reasonEnds(k, z) ==
        (j + k + z)..(j + k + z + RunFrom(txt, j + k + z, NotAngleOrHash) - 1)
      found == UNION {UNION {{c \in [k : {k}, z : {z}, e : reasonEnds(k, z), tg : BOOLEAN] :
                               fits(c.e, c.tg)} :
                             z \in 0..RunFrom(txt, j + k, Space)} :
                      k \in 1..P}
  IN IF found = {} THEN <<>>
     ELSE LET k == Greatest({c.k : c \in found})
              z == Greatest({c.z : c \in {c \in found : c.k = k}})
              e == Least({c.e : c \in {c \in found : c.k = k /\ c.z = z}})
              tg == [k |-> k, z |-> z, e |-> e, tg |-> TRUE] \in found
          IN <<[targets |-> SubSeq(txt, s, s + m - 1),
                plus |-> k,
                reasonText |-> SubSeq(txt, j + k + z, e),
                tag |-> IF tg THEN <<tagWord(txt[e + 1])>> ELSE <<>>,
                end |-> IF tg THEN e + 1 ELSE e]>>

matchAllStopsAtFirst(txt, from, heads) ==
  LET starts == {s \in from..Len(txt) : unitAt(txt, s, heads) # <<>>}
  IN IF starts = {} THEN <<>> ELSE unitAt(txt, Least(starts), heads)

\* text.matchAll(regex): the matches from left to right, none overlapping
RECURSIVE matchAll(_, _, _)
matchAll(txt, from, heads) ==
  LET starts == {s \in from..Len(txt) : unitAt(txt, s, heads) # <<>>}
  IN IF starts = {} THEN <<>>
     ELSE LET u == unitAt(txt, Least(starts), heads)[1]
          IN <<u>> \o matchAll(txt, u.end + 1, heads)

\* the ids of the tokens of class S in a target group, in order
RECURSIVE idsOf(_, _)
idsOf(targets, S) ==
  IF targets = <<>> THEN <<>>
  ELSE (IF Head(targets) \in S
        THEN <<IF Head(targets) \in MentionTokens THEN mentionId(Head(targets))
               ELSE groupId(Head(targets))>>
        ELSE <<>>) \o idsOf(Tail(targets), S)

RECURSIVE pushAllKeepsSelf(_, _, _, _)
pushAllKeepsSelf(u, receivers, giverId, cfg) ==
  IF receivers = <<>> THEN <<>>
  ELSE (IF unknownValue(cfg, valueOf(u.tag)) THEN <<>>
        ELSE <<[receiver |-> Head(receivers), value |-> valueOf(u.tag),
                points |-> u.plus, reason |-> trim(u.reasonText)]>>)
       \o pushAllKeepsSelf(u, Tail(receivers), giverId, cfg)

\* the inner loop of the multi-target parsers over one unit's receivers
RECURSIVE pushAll(_, _, _, _)
pushAll(u, receivers, giverId, cfg) ==
  IF receivers = <<>> THEN <<>>
  ELSE (IF Head(receivers) = giverId THEN <<>>
        ELSE IF unknownValue(cfg, valueOf(u.tag)) THEN <<>>
        ELSE <<[receiver |-> Head(receivers), value |-> valueOf(u.tag),
                points |-> u.plus, reason |-> trim(u.reasonText)]>>)
       \o pushAll(u, Tail(receivers), giverId, cfg)

RECURSIVE parseUnits(_, _, _)
parseUnits(units, giverId, cfg) ==
  IF units = <<>> THEN <<>>
  ELSE pushAll(Head(units), idsOf(Head(units).targets, MentionTokens), giverId, cfg)
       \o parseUnits(Tail(units), giverId, cfg)

parseRecognitions(text, giverId, cfg) ==
  parseUnits(matchAll(text, 1, MentionTokens), giverId, cfg)

\* userMatches if any, else the members of the first group
mentionedUsersIgnoresGroups(u, members) == idsOf(u.targets, MentionTokens)

mentionedUsers(u, members) ==
  IF idsOf(u.targets, MentionTokens) # <<>> THEN idsOf(u.targets, MentionTokens)
  ELSE IF idsOf(u.targets, GroupTokens) # <<>> THEN members
  ELSE <<>>

RECURSIVE parseUnitsWithGroups(_, _, _, _)
parseUnitsWithGroups(units, giverId, cfg, members) ==
  IF units = <<>> THEN <<>>
  ELSE pushAll(Head(units), mentionedUsers(Head(units), members), giverId, cfg)
       \o parseUnitsWithGroups(Tail(units), giverId, cfg, members)

\* members: what resolveGroupMembers returns for the group ([] on failure)
parseRecognitionsWithGroups(text, giverId, cfg, members) ==
  parseUnitsWithGroups(matchAll(text, 1, MentionTokens \cup GroupTokens),
                       giverId, cfg, members)

parse(mode, text, giverId, cfg, members) ==
  CASE mode = "processRecognition" -> parseRecognition(text, giverId, cfg)
    [] mode = "processRecognitions" -> parseRecognitions(text, giverId, cfg)
    [] OTHER -> parseRecognitionsWithGroups(text, giverId, cfg, members)

(***************************************************************************)
(* SpecParse: the messages of U1 that reach a ledger without records, one   *)
(* at a time; a process method parses the text and hands each candidate to *)
(* canGivePoints and recordRecognition.                                    *)
(***************************************************************************)
\* a '#word' is followed by something that is not a word character
WellFormed(txt) ==
  \A i \in 1..(Len(txt) - 1) : txt[i] \in TagTokens => txt[i + 1] # "w"

ShortTexts == {txt \in SeqsUpTo(Alphabet, MaxText) : WellFormed(txt)}

\* free text that begins and ends with a word character
Reasons ==
  {r \in SeqsUpTo({"w", " ", "+", "#bogus"}, MaxReason) :
     /\ r # <<>>
     /\ r[1] = "w"
     /\ r[Len(r)] = "w"
     /\ WellFormed(r)}

Blanks == {<<>>, <<" ">>}

RECURSIVE Pluses(_)
Pluses(n) == IF n = 0 THEN <<>> ELSE <<"+">> \o Pluses(n - 1)

\* one mention of U2, a run of n '+', a reason, and perhaps the tag #teamwork
UnitTexts ==
  {<<"<@U2>">> \o b1 \o Pluses(n) \o b2 \o r \o tag :
     b1 \in Blanks, n \in PlusRuns, b2 \in Blanks, r \in Reasons,
     tag \in {<<>>, <<"#teamwork">>, <<" ", "#teamwork">>}}

Texts == ShortTexts \cup UnitTexts

\* what usergroups.users.list may answer; [] stands for a failed call too
MemberLists == {<<>>, <<"U2">>, <<"U1", "U2">>}

\* a message arrives and the process method parses it
ParseMessage(t, mode, g, text, members) ==
  /\ tasks[t].pc = "idle"
  /\ users = EmptyMap
  /\ tasks' = [tasks EXCEPT ![t] =
                 [pc |-> "loop", mode |-> mode, giver |-> g, text |-> text,
                  cands |-> parse(mode, text, g, config, members),
                  i |-> 1, calls |-> <<>>]]
  /\ last' = noSave(mode, "parsed", FALSE)
  /\ UNCHANGED <<today, config, users, redeemed, disk>>

\* one turn of the process loop, its write included
LoopTurn(t) ==
  LET g == tasks[t].giver
      c == tasks[t].cands[tasks[t].i]
      us == canGivePointsStore(users, g, today)
  IN /\ tasks[t].pc = "loop"
     /\ tasks[t].i <= Len(tasks[t].cands)
     /\ UNCHANGED <<today, config, redeemed>>
     /\ IF canGivePoints(users, config, g, c.points, today)
        THEN /\ users' = recordRecognition(us, g, c.receiver, c.value, c.points, today)
             /\ disk' = <<snapshot(config,
                  recordRecognitionSaves(us, g, c.receiver, c.value, c.points, today))>>
             /\ tasks' = [tasks EXCEPT
                  ![t].i = @ + 1,
                  ![t].calls = Append(@, [giver |-> g, receiver |-> c.receiver])]
             /\ last' = saved("recordRecognition", "void", Stale(users, g, today))
        ELSE /\ users' = us
             /\ disk' = disk
             /\ tasks' = [tasks EXCEPT ![t].i = @ + 1]
             /\ last' = noSave("canGivePoints", "false", Stale(users, g, today))

\* the process method returns
LoopDone(t) ==
  /\ tasks[t].pc = "loop"
  /\ tasks[t].i > Len(tasks[t].cands)
  /\ tasks' = [tasks EXCEPT ![t] = IdleTask]
  /\ last' = noSave("process", "returned", FALSE)
  /\ UNCHANGED <<today, config, users, redeemed, disk>>

InitParse ==
  /\ today = 1
  /\ config = DefaultConfig
  /\ users = EmptyMap
  /\ tasks = [t \in Handlers |-> IdleTask]
  /\ last = noSave("constructor", "void", FALSE)
  /\ redeemed = [u \in Users |-> 0]
  /\ disk = <<>>

NextParse ==
  \/ \E t \in Handlers :
       /\ tasks[t].pc = "idle"
       /\ \E mode \in {"processRecognition", "processRecognitions"}, text \in Texts :
            ParseMessage(t, mode, "U1", text, <<>>)
  \/ \E t \in Handlers :
       /\ tasks[t].pc = "idle"
       /\ \E text \in Texts, members \in MemberLists :
            ParseMessage(t, "processRecognitionsWithGroups", "U1", text, members)
  \/ \E t \in Handlers : LoopTurn(t)
  \/ \E t \in Handlers : LoopDone(t)

SpecParse == InitParse /\ [][NextParse]_vars

\* the length of the '+' run that follows the mention opening a unit text
PlusRunOf(text) == RunFrom(text, 2 + RunFrom(text, 2, Space), Plus)

C20_NeverSelf ==
  \A t \in DOMAIN tasks :
    tasks[t].pc = "loop"
      => /\ \A i \in 1..Len(tasks[t].cands) : tasks[t].cands[i].receiver # tasks[t].giver
         /\ \A i \in 1..Len(tasks[t].calls) : tasks[t].calls[i].receiver # tasks[t].giver

\* a unit names the giver and another user (or a group with the giver in
\* it): the other user's candidate was recorded, the giver's never arose
C20_Witness ==
  \E t \in DOMAIN tasks :
    /\ tasks[t].pc = "loop"
    /\ tasks[t].text \in {<<"<@U1>", "<@U2>", "+", "w">>, <<"<!subteam^G1>", "+", "w">>}
    /\ tasks[t].mode = "processRecognitionsWithGroups"
    /\ Len(tasks[t].cands) = 1
    /\ tasks[t].calls = <<[giver |-> "U1", receiver |-> "U2"]>>

\* C21: a unit that holds, anywhere after its '+' run, a #tag that is neither
\* in Config.values nor 'general' yields no candidate, in every parser mode.
C21_UnknownTagDropsUnit ==
  \A t \in DOMAIN tasks :
    (/\ tasks[t].pc = "loop"
     /\ tasks[t].text \in UnitTexts
     /\ \E i \in 1..Len(tasks[t].text) : tasks[t].text[i] = "#bogus")
      => tasks[t].cands = <<>>

\* C23: a unit with no #tag whose reason is empty after trimming yields no
\* candidate, in every parser mode: a text without any #tag never gives a
\* candidate with an empty reason.
C23_NoTagNoReasonNoCandidate ==
  \A t \in DOMAIN tasks :
    (/\ tasks[t].pc = "loop"
     /\ \A i \in 1..Len(tasks[t].text) : tasks[t].text[i] \notin TagTokens)
      => \A i \in 1..Len(tasks[t].cands) : tasks[t].cands[i].reason # <<>>

\* C24: a mention, a '+' run and then directly a valid #tag is a valid unit:
\* every parser mode yields one candidate for it, with the tag as value and
\* an empty reason.
C24_TagAloneIsValid ==
  \A t \in DOMAIN tasks :
    (/\ tasks[t].pc = "loop"
     /\ tasks[t].text \in {<<"<@U2>", "+", "#teamwork">>, <<"<@U2>", " ", "+", "#teamwork">>})
      => /\ Len(tasks[t].cands) = 1
         /\ tasks[t].cands[1].value = "teamwork"
         /\ tasks[t].cands[1].reason = <<>>

(***************************************************************************)
(* SpecValues: an admin removes, adds back and resets the company values   *)
(* while no message is being processed; U1's messages name U2 and end with *)
(* a reason and perhaps a #tag.                                            *)
(***************************************************************************)
\* the end of a message: no tag, or a tag right after the reason or a blank
TagParts == {<<>>} \cup {<<tok>> : tok \in TagTokens} \cup {<<" ", tok>> : tok \in TagTokens}

TagTexts ==
  {<<"<@U2>">> \o Pluses(n) \o <<" ", "w">> \o tag : n \in PlusRuns, tag \in TagParts}

NextValues ==
  \/ Quiet /\ \E v \in {"integrity", "innovation", "teamwork"} : RemoveValue(v, TRUE)
  \/ Quiet /\ AddValue("TeamWork", TRUE)
  \/ Quiet /\ ResetValues(TRUE)
  \/ \E t \in Handlers :
       /\ tasks[t].pc = "idle"
       /\ \E mode \in {"processRecognition", "processRecognitions"}, text \in TagTexts :
            ParseMessage(t, mode, "U1", text, <<>>)
  \/ \E t \in Handlers :
       /\ tasks[t].pc = "idle"
       /\ \E text \in TagTexts, members \in MemberLists :
            ParseMessage(t, "processRecognitionsWithGroups", "U1", text, members)
  \/ \E t \in Handlers : LoopTurn(t)
  \/ \E t \in Handlers : LoopDone(t)

SpecValues == InitParse /\ [][NextValues]_vars

\* the tag token that ends the text, if any
TagOf(text) == IF text[Len(text)] \in TagTokens THEN <<text[Len(text)]>> ELSE <<>>

TargetGroups ==
  {<<"<@U2>">>, <<"<@U3>">>, <<"<@U2>", "<@U3>">>, <<"<@U2>", " ", "<@U3>">>,
   <<"<!subteam^G1>">>, <<"<@U2>", "<!subteam^G1>">>}

UnitTags == {<<>>, <<" ", "#teamwork">>}

UnitReasons == {<<"w">>, <<"w", " ", "w">>}

unitText(targets, n, reason, tag) ==
  targets \o <<" ">> \o Pluses(n) \o <<" ">> \o reason \o tag

Units ==
  {unitText(targets, n, reason, tag) :
     targets \in TargetGroups, n \in {1, 2}, reason \in UnitReasons, tag \in UnitTags}

\* one unit, or two with a blank between them
UnitMessages == Units \cup {u1 \o <<" ">> \o u2 : u1 \in Units, u2 \in Units}

\* what client.usergroups.users.list does
Lookups ==
  {[kind |-> "ok", users |-> m] : m \in {<<"U1", "U2">>, <<"U3", "U2">>}}
    \cup {[kind |-> k, users |-> <<>>] : k \in {"notOk", "noUsers", "throws"}}

resolveGroupMembersLeaksThrow(answer) ==
  [threw |-> answer.kind = "throws",
   users |-> IF answer.kind = "ok" THEN answer.users ELSE <<>>]

\* resolveGroupMembers: the users of an ok answer; [] for an answer that is
\* not ok or has no users, and [] from the catch block when the call throws
resolveGroupMembers(answer) ==
  [threw |-> FALSE,
   users |-> IF answer.kind = "ok" THEN answer.users ELSE <<>>]

\* a matched unit without individual mentions names a group: the lookup runs
needsLookup(text) ==
  LET units == matchAll(text, 1, MentionTokens \cup GroupTokens)
  IN \E i \in 1..Len(units) :
       /\ idsOf(units[i].targets, MentionTokens) = <<>>
       /\ idsOf(units[i].targets, GroupTokens) # <<>>

\* a message arrives and processRecognitionsWithGroups parses it
ParseWithGroups(t, g, text, answer) ==
  /\ tasks[t].pc = "idle"
  /\ users = EmptyMap
  /\ tasks' = [tasks EXCEPT ![t] =
                 [pc |-> IF needsLookup(text) /\ resolveGroupMembers(answer).threw
                         THEN "thrown" ELSE "loop",
                  mode |-> "processRecognitionsWithGroups",
                  giver |-> g, text |-> text, answer |-> answer,
                  cands |-> parseRecognitionsWithGroups(text, g, config,
                                                        resolveGroupMembers(answer).users),
                  i |-> 1, calls |-> <<>>]]
  /\ last' = noSave("processRecognitionsWithGroups", "parsed", FALSE)
  /\ UNCHANGED <<today, config, users, redeemed, disk>>

NextUnits ==
  \/ \E t \in Handlers :
       /\ tasks[t].pc = "idle"
       /\ \E mode \in {"processRecognition", "processRecognitions"}, text \in UnitMessages :
            ParseMessage(t, mode, "U1", text, <<>>)
  \/ \E t \in Handlers :
       /\ tasks[t].pc = "idle"
       /\ \E text \in UnitMessages, answer \in Lookups :
            ParseWithGroups(t, "U1", text, answer)
  \/ \E t \in Handlers : LoopTurn(t)
  \/ \E t \in Handlers : LoopDone(t)

SpecUnits == InitParse /\ [][NextUnits]_vars

\* the candidate of a unit for one receiver
Cand(r, v, p, reason) == [receiver |-> r, value |-> v, points |-> p, reason |-> reason]

\* C25: "<@U2> <@U3> ++ great work #teamwork" from U1, the targets separated
\* by a blank, yields a recognition for U2 and one for U3, in this order,
\* both with 2 points and the value 'teamwork'.
C25_BlankSeparatedTargets ==
  \A t \in DOMAIN tasks :
    (/\ tasks[t].pc = "loop"
     /\ tasks[t].mode # "processRecognition"
     /\ tasks[t].text = unitText(<<"<@U2>", " ", "<@U3>">>, 2, <<"w", " ", "w">>,
                                 <<" ", "#teamwork">>))
      => tasks[t].cands = <<Cand("U2", "teamwork", 2, <<"w", " ", "w">>),
                            Cand("U3", "teamwork", 2, <<"w", " ", "w">>)>>

\* targets that are individual mentions written without a blank between them
MentionRuns == {<<"<@U2>">>, <<"<@U3>">>, <<"<@U2>", "<@U3>">>}

\* the candidates of one unit whose targets are a run of mentions
UnitCands(targets, n, reason, tag) ==
  [i \in 1..Len(targets) |->
     Cand(mentionId(targets[i]), IF tag = <<>> THEN "general" ELSE "teamwork", n, reason)]

\* the messages of two such units, each with the candidates of its units in
\* the order of the text
TwoUnitParses ==
  {<<unitText(ta, na, ra, ga) \o <<" ">> \o unitText(tb, nb, rb, gb),
     UnitCands(ta, na, ra, ga) \o UnitCands(tb, nb, rb, gb)>> :
     ta \in MentionRuns, tb \in MentionRuns, na \in {1, 2}, nb \in {1, 2},
     ra \in UnitReasons, rb \in UnitReasons, ga \in UnitTags, gb \in UnitTags}

TwoUnitTexts == {p[1] : p \in TwoUnitParses}

\* C26: of a message with two units the multi-target modes parse each unit
\* on its own (its points, its reason, its value; the first unit ends where
\* the next target begins) and return the first unit's candidates before the
\* second's.
C26_UnitsParsedInOrder ==
  \A t \in DOMAIN tasks :
    (/\ tasks[t].pc = "loop"
     /\ tasks[t].mode # "processRecognition"
     /\ tasks[t].text \in TwoUnitTexts)
      => <<tasks[t].text, tasks[t].cands>> \in TwoUnitParses

\* two units that differ in target, points, reason and value were parsed and
\* both recorded
C26_Witness ==
  \E t \in DOMAIN tasks :
    /\ tasks[t].pc = "loop"
    /\ tasks[t].mode = "processRecognitions"
    /\ tasks[t].text = unitText(<<"<@U2>">>, 2, <<"w", " ", "w">>, <<" ", "#teamwork">>)
                         \o <<" ">> \o unitText(<<"<@U3>">>, 1, <<"w">>, <<>>)
    /\ tasks[t].cands = <<Cand("U2", "teamwork", 2, <<"w", " ", "w">>),
                          Cand("U3", "general", 1, <<"w">>)>>
    /\ tasks[t].calls = <<[giver |-> "U1", receiver |-> "U2"],
                          [giver |-> "U1", receiver |-> "U3"]>>

\* the members that are not the giver U1, in the resolver's order
OthersOf(members) == SelectSeq(members, LAMBDA m : m # "U1")

\* C27: in parseRecognitionsWithGroups a unit whose target is a group token
\* yields one candidate per member the resolver returned, in the resolver's
\* order and with the unit's points, reason and value, the giver left out:
\* [U1, U2] with giver U1 yields exactly the candidate for U2.
C27_GroupExpansion ==
  \A t \in DOMAIN tasks :
    (/\ tasks[t].pc = "loop"
     /\ tasks[t].mode = "processRecognitionsWithGroups"
     /\ tasks[t].answer.kind = "ok")
      => \A n \in {1, 2}, reason \in UnitReasons, tag \in UnitTags :
           tasks[t].text = unitText(<<"<!subteam^G1>">>, n, reason, tag)
             => tasks[t].cands =
                  [i \in 1..Len(OthersOf(tasks[t].answer.users)) |->
                     Cand(OthersOf(tasks[t].answer.users)[i],
                          IF tag = <<>> THEN "general" ELSE "teamwork", n, reason)]

\* the group resolved to [U1, U2]: one candidate, for U2, and it was recorded
C27_Witness ==
  \E t \in DOMAIN tasks :
    /\ tasks[t].pc = "loop"
    /\ tasks[t].mode = "processRecognitionsWithGroups"
    /\ tasks[t].answer = [kind |-> "ok", users |-> <<"U1", "U2">>]
    /\ tasks[t].text = unitText(<<"<!subteam^G1>">>, 2, <<"w">>, <<" ", "#teamwork">>)
    /\ tasks[t].cands = <<Cand("U2", "teamwork", 2, <<"w">>)>>
    /\ tasks[t].calls = <<[giver |-> "U1", receiver |-> "U2"]>>

\* a group unit alone, before or after a unit of mentions: the text, and the
\* candidates of the unit of mentions
GroupUnitParses ==
  {<<unitText(<<"<!subteam^G1>">>, n, r, g), <<>>>> :
     n \in {1, 2}, r \in UnitReasons, g \in UnitTags}
  \cup
  {<<unitText(<<"<!subteam^G1>">>, na, ra, ga) \o <<" ">> \o unitText(tb, nb, rb, gb),
     UnitCands(tb, nb, rb, gb)>> :
     tb \in MentionRuns, na \in {1, 2}, nb \in {1, 2},
     ra \in UnitReasons, rb \in UnitReasons, ga \in UnitTags, gb \in UnitTags}
  \cup
  {<<unitText(tb, nb, rb, gb) \o <<" ">> \o unitText(<<"<!subteam^G1>">>, na, ra, ga),
     UnitCands(tb, nb, rb, gb)>> :
     tb \in MentionRuns, na \in {1, 2}, nb \in {1, 2},
     ra \in UnitReasons, rb \in UnitReasons, ga \in UnitTags, gb \in UnitTags}

GroupUnitTexts == {p[1] : p \in GroupUnitParses}

\* C28: a failed group lookup (the call throws, or answers not-ok or without
\* users) never makes parseRecognitionsWithGroups or
\* processRecognitionsWithGroups throw: the group's unit yields no candidate
\* and the other unit of the message is parsed and processed as usual.
C28_LookupFailureIsEmpty ==
  \A t \in DOMAIN tasks :
    (/\ tasks[t].pc # "idle"
     /\ tasks[t].mode = "processRecognitionsWithGroups"
     /\ tasks[t].answer.kind # "ok")
      => /\ tasks[t].pc # "thrown"
         /\ tasks[t].text \in GroupUnitTexts
              => <<tasks[t].text, tasks[t].cands>> \in GroupUnitParses

\* the lookup threw; the unit after the group's was parsed and recorded
C28_Witness ==
  \E t \in DOMAIN tasks :
    /\ tasks[t].pc = "loop"
    /\ tasks[t].mode = "processRecognitionsWithGroups"
    /\ tasks[t].answer.kind = "throws"
    /\ tasks[t].text = unitText(<<"<!subteam^G1>">>, 1, <<"w">>, <<>>) \o <<" ">>
                         \o unitText(<<"<@U2>">>, 2, <<"w">>, <<" ", "#teamwork">>)
    /\ tasks[t].cands = <<Cand("U2", "teamwork", 2, <<"w">>)>>
    /\ tasks[t].calls = <<[giver |-> "U1", receiver |-> "U2"]>>

(***************************************************************************)
(* CommandService: the slash commands.  U1 is the one user in the admin    *)
(* list the service was constructed with; U2 is not in it.  A command is   *)
(* one step up to its return, except resetAllPoints and redeemReward,      *)
(* which suspend at their writes.                                          *)
(***************************************************************************)
AdminUsers == <<"U1">>

isAdminAnyone(userId) == TRUE

\* this.adminUsers.includes(userId)
isAdmin(userId) == includes(AdminUsers, userId)

\* the number arguments the commands receive
NumberStrings == {"abc", "0", "1", "2.5", "2abc"}

\* parseInt(str, 10): the leading integer, <<>> for NaN
parseInt(str) ==
  CASE str = "0" -> <<0>>
    [] str = "1" -> <<1>>
    [] str \in {"2.5", "2abc"} -> <<2>>
    [] OTHER -> <<>>

\* the string as a number (Number(str)), rounded down; <<>> for NaN
numberOf(str) ==
  CASE str = "0" -> <<0>>
    [] str = "1" -> <<1>>
    [] str = "2.5" -> <<2>>
    [] OTHER -> <<>>

validCountAllowsZero(str) == parseInt(str) # <<>> /\ parseInt(str)[1] >= 0

\* !(isNaN(n) || n < 1) for n = parseInt(str, 10)
validCount(str) == parseInt(str) # <<>> /\ parseInt(str)[1] >= 1

\* !value || value.trim() === ''
blank(str) == str \in {"", " "}

\* history record of a command: who called it, with what, and its result
cmd(op, by, arg, ret, write) ==
  [op |-> op, ret |-> ret, write |-> write, stale |-> FALSE, by |-> by, arg |-> arg]

cmdWrote(op, by, arg, ok) ==
  IF ok THEN cmd(op, by, arg, "success", "save") ELSE cmd(op, by, arg, "throws", "failed")

CommandSetDailyLimit(userId, limitStr, ok) ==
  /\ UNCHANGED <<today, users, tasks, redeemed>>
  /\ IF ~isAdmin(userId) \/ ~validCount(limitStr)
     THEN /\ last' = cmd("command.setDailyLimit", userId, limitStr, "failure", "none")
          /\ UNCHANGED <<config, disk>>
     ELSE /\ config' = [config EXCEPT !.dailyLimit = parseInt(limitStr)[1]]
          /\ disk' = written(disk, config', users, ok)
          /\ last' = cmdWrote("command.setDailyLimit", userId, limitStr, ok)

CommandAddValue(userId, value, ok) ==
  /\ UNCHANGED <<today, users, tasks, redeemed>>
  /\ IF ~isAdmin(userId) \/ blank(value)
     THEN /\ last' = cmd("command.addValue", userId, value, "failure", "none")
          /\ UNCHANGED <<config, disk>>
     ELSE /\ config' = addValue(config, normalize(value))
          /\ IF addValueSaves(config, normalize(value))
             THEN /\ disk' = written(disk, config', users, ok)
                  /\ last' = cmdWrote("command.addValue", userId, value, ok)
             ELSE /\ ok
                  /\ disk' = disk
                  /\ last' = cmd("command.addValue", userId, value, "success", "none")

CommandRemoveValue(userId, value, ok) ==
  /\ UNCHANGED <<today, users, tasks, redeemed>>
  /\ IF ~isAdmin(userId) \/ blank(value)
     THEN /\ last' = cmd("command.removeValue", userId, value, "failure", "none")
          /\ UNCHANGED <<config, disk>>
     ELSE /\ config' = removeValue(config, normalize(value))
          /\ disk' = written(disk, config', users, ok)
          /\ last' = cmdWrote("command.removeValue", userId, value, ok)

CommandAddReward(userId, name, costStr, ok) ==
  /\ UNCHANGED <<today, users, tasks, redeemed>>
  /\ IF ~isAdmin(userId) \/ blank(name) \/ ~validCount(costStr)
     THEN /\ last' = cmd("command.addReward", userId, costStr, "failure", "none")
          /\ UNCHANGED <<config, disk>>
     ELSE /\ config' = addReward(config, name, parseInt(costStr)[1])
          /\ disk' = written(disk, config', users, ok)
          /\ last' = cmdWrote("command.addReward", userId, costStr, ok)

CommandRemoveReward(userId, name, ok) ==
  /\ UNCHANGED <<today, users, tasks, redeemed>>
  /\ IF ~isAdmin(userId) \/ blank(name)
     THEN /\ last' = cmd("command.removeReward", userId, name, "failure", "none")
          /\ UNCHANGED <<config, disk>>
     ELSE /\ config' = removeReward(config, name)
          /\ disk' = written(disk, config', users, ok)
          /\ last' = cmdWrote("command.removeReward", userId, name, ok)

\* target.match(/^<@([A-Z0-9]+)>$/), else the id resolveUserId found for the
\* name (found: <<>> for null), which must pass /^U[A-Z0-9]+$/
targetId(target, found) ==
  IF target \in MentionTokens THEN <<mentionId(target)>> ELSE found

CommandResetPoints(requesterId, target, found, ok) ==
  /\ UNCHANGED <<today, config, tasks>>
  /\ IF ~isAdmin(requesterId) \/ targetId(target, found) = <<>>
     THEN /\ last' = cmd("command.resetPoints", requesterId, target, "failure", "none")
          /\ UNCHANGED <<users, redeemed, disk>>
     ELSE /\ users' = resetUserPoints(users, targetId(target, found)[1], today)
          /\ redeemed' = [redeemed EXCEPT ![targetId(target, found)[1]] = 0]
          /\ disk' = written(disk, config, users', ok)
          /\ last' = cmdWrote("command.resetPoints", requesterId, target, ok)

\* the orders in which Object.keys may list the ids
RECURSIVE Orderings(_)
Orderings(S) ==
  IF S = {} THEN {<<>>}
  ELSE UNION {{<<x>> \o q : q \in Orderings(S \ {x})} : x \in S}

\* resetAllPoints up to its first await: the admin test, the list of ids,
\* and the first user's reset, whose write is pending
CommandResetAllPoints(t, requesterId) ==
  /\ tasks[t].pc = "idle"
  /\ UNCHANGED <<today, config, disk>>
  /\ IF ~isAdmin(requesterId)
     THEN /\ last' = cmd("command.resetAllPoints", requesterId, "", "failure", "none")
          /\ UNCHANGED <<users, tasks, redeemed>>
     ELSE IF DOMAIN users = {}
     THEN /\ last' = cmd("command.resetAllPoints", requesterId, "", "success", "none")
          /\ UNCHANGED <<users, tasks, redeemed>>
     ELSE \E keys \in Orderings(DOMAIN users) :
            /\ users' = resetUserPoints(users, keys[1], today)
            /\ redeemed' = [redeemed EXCEPT ![keys[1]] = 0]
            /\ tasks' = [tasks EXCEPT ![t] =
                           [pc |-> "awaitReset", by |-> requesterId, keys |-> keys,
                            i |-> 1, snap |-> snapshot(config, users')]]
            /\ last' = cmd("command.resetAllPoints", requesterId, "", "pending", "save")

ResetWrittenStopsAfterFirst(t, ok) ==
  /\ tasks[t].pc = "awaitReset"
  /\ UNCHANGED <<today, config, users, redeemed>>
  /\ disk' = IF ok THEN <<tasks[t].snap>> ELSE disk
  /\ tasks' = [tasks EXCEPT ![t] = IdleTask]
  /\ last' = IF ok THEN cmd("command.resetAllPoints", tasks[t].by, "", "success", "save")
             ELSE cmd("command.resetAllPoints", tasks[t].by, "", "throws", "failed")

\* a write of resetAllPoints ends: the next user's reset, or the return
ResetWritten(t, ok) ==
  /\ tasks[t].pc = "awaitReset"
  /\ UNCHANGED <<today, config>>
  /\ disk' = IF ok THEN <<tasks[t].snap>> ELSE disk
  /\ IF ~ok
     THEN /\ tasks' = [tasks EXCEPT ![t] = IdleTask]
          /\ last' = cmd("command.resetAllPoints", tasks[t].by, "", "throws", "failed")
          /\ UNCHANGED <<users, redeemed>>
     ELSE IF tasks[t].i < Len(tasks[t].keys)
     THEN /\ users' = resetUserPoints(users, tasks[t].keys[tasks[t].i + 1], today)
          /\ redeemed' = [redeemed EXCEPT ![tasks[t].keys[tasks[t].i + 1]] = 0]
          /\ tasks' = [tasks EXCEPT ![t].i = @ + 1,
                                    ![t].snap = snapshot(config, users')]
          /\ last' = cmd("command.resetAllPoints", tasks[t].by, "", "pending", "save")
     ELSE /\ tasks' = [tasks EXCEPT ![t] = IdleTask]
          /\ last' = cmd("command.resetAllPoints", tasks[t].by, "", "success", "save")
          /\ UNCHANGED <<users, redeemed>>

(***************************************************************************)
(* SpecCmd: U1 (admin) and U2 issue commands and U1 recognises U2, each    *)
(* call starting when no command is suspended; every write succeeds.       *)
(***************************************************************************)
NextCmd ==
  \/ Quiet /\ \E p \in 1..MaxPoints : RecordRecognition("U1", "U2", "teamwork", p, TRUE)
  \/ Quiet /\ \E by \in Users, str \in NumberStrings : CommandSetDailyLimit(by, str, TRUE)
  \/ Quiet /\ \E by \in Users, value \in {" Kudos ", ""} : CommandAddValue(by, value, TRUE)
  \/ Quiet /\ \E by \in Users, value \in {"kudos", ""} : CommandRemoveValue(by, value, TRUE)
  \/ Quiet /\ \E by \in Users, name \in {"Sticker", ""}, str \in NumberStrings :
                CommandAddReward(by, name, str, TRUE)
  \/ Quiet /\ \E by \in Users, name \in {"Sticker", ""} : CommandRemoveReward(by, name, TRUE)
  \/ Quiet /\ \E by \in Users, target \in {"<@U2>", "U2"}, found \in {<<>>, <<"U2">>} :
                CommandResetPoints(by, target, found, TRUE)
  \/ Quiet /\ \E by \in Users : CommandResetAllPoints(2, by)
  \/ ResetWritten(2, TRUE)
  \/ Quiet /\ \E id \in Users : CommandRedeem(1, id, "Sticker")
  \/ CommandRedeemDone(1, TRUE)

SpecCmd == InitRedeem /\ [][NextCmd]_vars

AdminCommands ==
  {"command.setDailyLimit", "command.addValue", "command.removeValue",
   "command.addReward", "command.removeReward", "command.resetPoints",
   "command.resetAllPoints"}

\* C29: an admin command called by a user who is not in the admin list
\* returns success = false and leaves Config, every record and the file as
\* they were, without a write; a user who is not an admin redeems whenever
\* the reward exists and the balance suffices.
C29_AdminOnly ==
  [][/\ (last'.op \in AdminCommands /\ ~includes(AdminUsers, last'.by))
          => /\ last'.ret = "failure"
             /\ last'.write = "none"
             /\ UNCHANGED <<config, users, disk>>
     /\ \A id \in Users \ {"U1"} :
          (CommandRedeem(1, id, "Sticker")
             /\ commandMayRedeem(users, config, id, "Sticker", today))
            => last'.ret = "pending"]_vars

\* U2, who had redeemed a reward, was refused an admin command
C29_Witness ==
  /\ last.op \in AdminCommands
  /\ last.by = "U2"
  /\ last.ret = "failure"
  /\ redeemed["U2"] > 0

\* the limit and the costs are integers of at least 1
CountsPositive(cfg) ==
  /\ cfg.dailyLimit \in Nat \ {0}
  /\ \A i \in 1..Len(cfg.rewards) : cfg.rewards[i].cost \in Nat \ {0}

CountCommand == last'.op \in {"command.setDailyLimit", "command.addReward"}

\* C30 as stated: the limit and the costs stay integers >= 1, and
\* setDailyLimit and addReward return success = false and leave Config alone
\* when the argument is not a number or is below 1.
C30_Original ==
  [][/\ CountsPositive(config')
     /\ (CountCommand /\ (numberOf(last'.arg) = <<>> \/ numberOf(last'.arg)[1] < 1))
          => (last'.ret = "failure" /\ UNCHANGED config)]_vars

\* C30: the limit and the costs stay integers >= 1; setDailyLimit and
\* addReward return success = false and leave Config alone when the argument
\* does not begin with an integer or that integer is below 1, and take the
\* leading integer of any other argument.
C30_CountsStayPositive ==
  [][/\ CountsPositive(config')
     /\ (CountCommand /\ (parseInt(last'.arg) = <<>> \/ parseInt(last'.arg)[1] < 1))
          => (last'.ret = "failure" /\ UNCHANGED config)
     /\ (CountCommand /\ last'.ret = "success")
          => /\ last'.op = "command.setDailyLimit"
                  => config'.dailyLimit = parseInt(last'.arg)[1]
             /\ last'.op = "command.addReward"
                  => \E i \in 1..Len(config'.rewards) :
                       config'.rewards[i].cost = parseInt(last'.arg)[1]]_vars

\* the admin set the limit from "2abc", and a reward's cost from "2.5"
C30_Witness ==
  /\ config.dailyLimit = 2
  /\ last.op = "command.addReward"
  /\ last.arg = "2.5"
  /\ last.ret = "success"
  /\ \E i \in 1..Len(config.rewards) : config.rewards[i].cost = 2

(***************************************************************************)
(* SpecValueList: the list of company values under addValue, removeValue   *)
(* and resetValues, called with raw strings in several letter cases and    *)
(* with surrounding blanks.                                                *)
(***************************************************************************)
RawValues == {" Kudos ", "kudos", "TeamWork", "teamwork"}

NextValueList ==
  \/ \E raw \in RawValues, ok \in BOOLEAN : AddValue(raw, ok)
  \/ \E raw \in RawValues \cup {"integrity", "innovation"}, ok \in BOOLEAN :
       RemoveValue(raw, ok)
  \/ \E ok \in BOOLEAN : ResetValues(ok)

SpecValueList == Init /\ [][NextValueList]_vars

\* no element occurs twice
NoDuplicates(seq) == \A i, j \in 1..Len(seq) : seq[i] = seq[j] => i = j

\* every element is its own toLowerCase().trim()
AllNormalized(seq) == \A i \in 1..Len(seq) : normalize(seq[i]) = seq[i]

\* C31: in every state reachable through addValue, removeValue and
\* resetValues, Config.values has no duplicates and holds only lower-cased,
\* trimmed tags; addValue of a tag that is already present, in whatever letter
\* case or with surrounding blanks, leaves values as they are.
C31_ValuesNormalizedNoDuplicates ==
  /\ [](NoDuplicates(config.values) /\ AllNormalized(config.values))
  /\ [][\A raw \in RawValues :
          ((\E ok \in BOOLEAN : AddValue(raw, ok))
             /\ includes(config.values, normalize(raw)))
            => config'.values = config.values]_vars

\* "TeamWork" or " Kudos " was added while its lower-cased, trimmed form
\* was present: nothing was pushed and nothing was saved
C31_Witness ==
  /\ last.op = "addValue"
  /\ last.write = "none"
  /\ includes(config.values, "kudos")
  /\ includes(config.values, "teamwork")
  /\ Len(config.values) = Len(DefaultValues) + 1

(***************************************************************************)
(* SpecRewardList: the list of rewards under addReward, removeReward and   *)
(* resetRewards.                                                           *)
(***************************************************************************)
RewardInputs == {"Coffee Voucher", "Half-day Off", "Sticker"}

NextRewardList ==
  \/ \E name \in RewardInputs, cost \in 1..MaxArg : AddReward(name, cost, TRUE)
  \/ \E name \in RewardInputs : RemoveReward(name, TRUE)
  \/ ResetRewards(TRUE)

SpecRewardList == Init /\ [][NextRewardList]_vars

\* the positions of the rewards called name
Named(rewards, name) == {i \in 1..Len(rewards) : rewards[i].name = name}

\* C32: in every state reachable through addReward, removeReward and
\* resetRewards the reward names are unique; addReward with an existing name
\* replaces that reward's cost at its position and adds no entry, with a new
\* name appends one entry at the end, and removeReward leaves no entry of
\* that name, the others keeping their order.
C32_RewardNamesUnique ==
  /\ [](\A i, j \in 1..Len(config.rewards) :
          config.rewards[i].name = config.rewards[j].name => i = j)
  /\ [][\A name \in RewardInputs :
          /\ \A cost \in 1..MaxArg :
               AddReward(name, cost, TRUE) =>
                 IF Named(config.rewards, name) # {}
                 THEN /\ Len(config.rewards') = Len(config.rewards)
                      /\ \A i \in 1..Len(config.rewards) :
                           config.rewards'[i] =
                             IF config.rewards[i].name = name
                             THEN [name |-> name, cost |-> cost]
                             ELSE config.rewards[i]
                 ELSE config.rewards' =
                        Append(config.rewards, [name |-> name, cost |-> cost])
          /\ RemoveReward(name, TRUE) =>
               /\ Named(config.rewards', name) = {}
               /\ LET keep(r) == r.name # name
                  IN config.rewards' = SelectSeq(config.rewards, keep)]_vars

\* the first reward's cost was replaced in place: still first, another
\* reward after it, and a new name was appended behind both
C32_Witness ==
  /\ last.op = "addReward"
  /\ Len(config.rewards) = Len(DefaultRewards) + 1
  /\ config.rewards[1] = [name |-> "Coffee Voucher", cost |-> 1]
  /\ config.rewards[2].name = "Half-day Off"
  /\ config.rewards[3].name = "Sticker"

(***************************************************************************)
(* Claims about resetAllPoints and resetPoints (SpecCmd)                   *)
(***************************************************************************)
\* C33: resetAllPoints by an admin resets the users one after another, one
\* write per user: each write that ends holds the state with exactly the
\* users reset so far, and at the return as many resets were written as
\* there are users, each of which has total 0, empty byValue, dailyGiven 0
\* and lastReset today (nothing else runs in between under SpecCmd).
C33_ResetAllOneWritePerUser ==
  [][(tasks[2].pc = "awaitReset" /\ tasks'[2] # tasks[2]) =>
       /\ disk' = <<snapshot(config, users)>>
       /\ \A k \in 1..Len(tasks[2].keys) :
            k <= tasks[2].i => users[tasks[2].keys[k]] = NewRecord(today)
       /\ tasks'[2].pc = "awaitReset" =>
            /\ tasks[2].i < Cardinality(DOMAIN users)
            /\ tasks'[2].i = tasks[2].i + 1
       /\ tasks'[2].pc = "idle" =>
            /\ last'.ret = "success"
            /\ tasks[2].i = Cardinality(DOMAIN users)
            /\ \A u \in DOMAIN users' : users'[u] = NewRecord(today)]_vars

\* resetAllPoints has returned after the writes of two users' resets
C33_Witness ==
  /\ last.op = "command.resetAllPoints"
  /\ last.ret = "success"
  /\ last.write = "save"
  /\ Cardinality(DOMAIN users) = 2
  /\ disk = <<snapshot(config, users)>>
  /\ \A u \in DOMAIN users : users[u] = NewRecord(today)

\* C34: resetPoints called by an admin resets the target's points and returns
\* success both for the bare id 'U2' and for the mention '<@U2>'; in both
\* cases resetUserPoints is called with 'U2'.
C34_ResetPointsByIdOrMention ==
  [][(/\ last'.op = "command.resetPoints"
      /\ includes(AdminUsers, last'.by)
      /\ last'.arg \in {"U2", "<@U2>"})
       => /\ last'.ret = "success"
          /\ "U2" \in DOMAIN users'
          /\ users'["U2"] = NewRecord(today)]_vars

(***************************************************************************)
(* SpecApp: the message listener of app.ts.  It awaits                     *)
(* parseRecognitionsWithGroups on the message text and announces, with one *)
(* awaited say() each, the recognitions that call returned.  U1 posts the  *)
(* messages; the ledger is the default one.                                *)
(***************************************************************************)
\* app.message: the checks of the event, then the parser call
Listen(t, g, text, answer) ==
  /\ tasks[t].pc = "idle"
  /\ tasks' = [tasks EXCEPT ![t] =
                 [pc |-> IF needsLookup(text) /\ resolveGroupMembers(answer).threw
                         THEN "thrown" ELSE "say",
                  giver |-> g, text |-> text, answer |-> answer,
                  cands |-> parseRecognitionsWithGroups(text, g, config,
                                                        resolveGroupMembers(answer).users),
                  i |-> 1]]
  /\ last' = noSave("parseRecognitionsWithGroups", "parsed", FALSE)
  /\ UNCHANGED <<today, config, users, redeemed, disk>>

\* one turn of the listener's loop: await say({ text: ":tada: ..." })
Say(t) ==
  /\ tasks[t].pc = "say"
  /\ tasks[t].i <= Len(tasks[t].cands)
  /\ tasks' = [tasks EXCEPT ![t].i = @ + 1]
  /\ last' = [op |-> "say", ret |-> "void", write |-> "none", stale |-> FALSE,
              by |-> tasks[t].giver, said |-> tasks[t].cands[tasks[t].i]]
  /\ UNCHANGED <<today, config, users, redeemed, disk>>

\* after the loop: publishHomeView for the first receiver and the giver,
\* which reads getAllUsers() and getConfig(), and the listener returns
Listened(t) ==
  /\ tasks[t].pc = "say"
  /\ tasks[t].i > Len(tasks[t].cands)
  /\ tasks' = [tasks EXCEPT ![t] = IdleTask]
  /\ last' = noSave("publishHomeView",
                    IF tasks[t].cands # <<>>
                         /\ tasks[t].cands[1].receiver \in DOMAIN users
                    THEN "published" ELSE "none", FALSE)
  /\ UNCHANGED <<today, config, users, redeemed, disk>>

NextApp ==
  \/ \E t \in Handlers :
       /\ tasks[t].pc = "idle"
       /\ \E text \in Units, answer \in Lookups : Listen(t, "U1", text, answer)
  \/ \E t \in Handlers : Say(t)
  \/ \E t \in Handlers : Listened(t)

SpecApp == InitParse /\ [][NextApp]_vars

\* C35: each recognition the message listener announces has passed the
\* giver's canGivePoints check and has been recorded and saved: at the
\* announcement the receiver's record holds the points under the value, the
\* giver's dailyGiven holds them, and the file holds both records.
C35_AnnouncedWasRecorded ==
  [][last'.op = "say" =>
       LET c == last'.said IN
       /\ c.receiver \in DOMAIN users'
       /\ c.value \in DOMAIN users'[c.receiver].byValue
       /\ users'[c.receiver].byValue[c.value] >= c.points
       /\ users'[c.receiver].total >= c.points
       /\ last'.by \in DOMAIN users'
       /\ users'[last'.by].dailyGiven >= c.points
       /\ disk' = <<snapshot(config', users')>>]_vars

(***************************************************************************)
(* SpecConc: two message handlers of the giver U1 and an admin's           *)
(* resetAllPoints run at the same time.  A handler is suspended in the     *)
(* group lookup and in each write, resetAllPoints in each of its writes;   *)
(* between two suspensions a call runs alone.  The writes of suspended     *)
(* calls are separate fs.promises.writeFile calls on one path, each with   *)
(* the text serialised when it was issued: they end in any order, and the  *)
(* file holds the text of the one that ended last.  The day may change     *)
(* while calls are suspended.                                              *)
(***************************************************************************)
ConcHandlers == {1, 2}

Resetter == 3

\* the candidate lists of the messages: one candidate for U2
ConcMessages == {<<c>> : c \in {c \in Candidates("U1") : c.points <= MaxPoints}}

\* messages arrive while U2 holds less than MaxTotal points
FewPoints == \A u \in DOMAIN users : users[u].total < MaxTotal

InitConc ==
  /\ today = 1
  /\ \E l \in {1, DefaultDailyLimit} : config = [DefaultConfig EXCEPT !.dailyLimit = l]
  /\ users = EmptyMap
  /\ tasks = [t \in ConcHandlers \cup {Resetter} |-> IdleTask]
  /\ last = noSave("constructor", "void", FALSE)
  /\ redeemed = [u \in Users |-> 0]
  /\ disk = <<snapshot(config, users)>>

NextConc ==
  \/ DayChange
  \/ \E t \in ConcHandlers :
       /\ tasks[t].pc = "idle"
       /\ FewPoints
       /\ \E cands \in ConcMessages :
            Receive(t, "processRecognitionsWithGroups", "U1", cands)
  \/ \E t \in ConcHandlers : GroupsResolved(t)
  \/ \E t \in ConcHandlers : Check(t)
  \/ \E t \in ConcHandlers : Written(t)
  \/ \E t \in ConcHandlers : Return(t)

SpecConc == InitConc /\ [][NextConc]_vars

(***************************************************************************)
(* SpecResetConc: the two handlers and an admin's resetAllPoints, within   *)
(* one day                                                                 *)
(***************************************************************************)
NextResetConc ==
  \/ \E t \in ConcHandlers :
       /\ tasks[t].pc = "idle"
       /\ FewPoints
       /\ \E cands \in ConcMessages :
            Receive(t, "processRecognitionsWithGroups", "U1", cands)
  \/ \E t \in ConcHandlers : GroupsResolved(t)
  \/ \E t \in ConcHandlers : Check(t)
  \/ \E t \in ConcHandlers : Written(t)
  \/ \E t \in ConcHandlers : Return(t)
  \/ NoneRunning /\ CommandResetAllPoints(Resetter, "U1")
  \/ NoneRunning /\ ResetWritten(Resetter, TRUE)

SpecResetConc == InitConc /\ [][NextResetConc]_vars

(***************************************************************************)
(* Claims about calls that run at the same time                            *)
(***************************************************************************)
\* C36: handlers of one giver interleave only at their suspensions, so no
\* mutation of another handler falls between a handler's canGivePoints and
\* its recordRecognition; hence whenever a handler has recorded a
\* recognition, the giver's record, if its lastReset is today, has
\* dailyGiven <= dailyLimit, under every interleaving.
C36_LimitUnderInterleaving ==
  [][(last'.op = "recordRecognition" /\ users' # users) =>
       \A t \in ConcHandlers :
         (tasks[t].pc = "loop" /\ tasks'[t].pc = "awaitWrite") =>
           LET g == tasks[t].giver IN
           users'[g].lastReset = today' => users'[g].dailyGiven <= config'.dailyLimit]_vars

\* no write is pending
NoWritePending == \A t \in DOMAIN tasks : tasks[t].pc \notin {"awaitWrite", "awaitReset"}

\* C37: when mutating calls were started before the writes of earlier ones
\* had ended, then once every write has ended the file holds the state after
\* the last mutation (all of the in-memory state but records created lazily
\* since); an older snapshot is never what remains in the file.
C37_LastSnapshotWins == NoWritePending => FileBehindByLazyRecords

\* C40: when handlers record recognitions while resetAllPoints is in
\* progress, at its return every user that existed when it started has
\* total 0 and dailyGiven 0.
C40_ResetAllLeavesZero ==
  [][(tasks[Resetter].pc = "awaitReset" /\ tasks'[Resetter].pc = "idle"
        /\ last'.ret = "success") =>
       \A k \in 1..Len(tasks[Resetter].keys) :
         /\ users'[tasks[Resetter].keys[k]].total = 0
         /\ users'[tasks[Resetter].keys[k]].dailyGiven = 0]_vars

(***************************************************************************)
(* SpecFrame: U1 and U2 recognise each other over the days while a third   *)
(* user's record exists                                                    *)
(***************************************************************************)
Bystander == "U3"

NextFrame ==
  \/ DayChange
  \/ \E id \in Users \cup {Bystander} : GetUserRecord(id)
  \/ \E v \in Tags, p \in 1..MaxPoints : RecordRecognition("U1", "U2", v, p, TRUE)
  \/ RecordRecognition("U2", "U1", "general", 1, TRUE)

SpecFrame == Init /\ [][NextFrame]_vars

\* the record of id when a call refers to it: the stored one, else a new one
RecordOf(id) == IF id \in DOMAIN users THEN users[id] ELSE NewRecord(today)

\* C38: recordRecognition with giver # receiver changes only the giver's
\* dailyGiven and lastReset and the receiver's total and byValue[value]; the
\* giver's total and byValue, the receiver's dailyGiven and lastReset (also
\* a lastReset that is not today), the receiver's other byValue entries,
\* every other user's record and Config stay as they were.
C38_RecordRecognitionFrame ==
  [][\A g \in Users, r \in Users, v \in Tags, p \in 1..MaxPoints :
       (g # r /\ RecordRecognition(g, r, v, p, TRUE)) =>
         /\ config' = config
         /\ DOMAIN users' = DOMAIN users \cup {g, r}
         /\ \A u \in DOMAIN users \ {g, r} : users'[u] = users[u]
         /\ users'[g].total = RecordOf(g).total
         /\ users'[g].byValue = RecordOf(g).byValue
         /\ users'[r].dailyGiven = RecordOf(r).dailyGiven
         /\ users'[r].lastReset = RecordOf(r).lastReset
         /\ DOMAIN users'[r].byValue = DOMAIN RecordOf(r).byValue \cup {v}
         /\ \A w \in DOMAIN RecordOf(r).byValue \ {v} :
              users'[r].byValue[w] = RecordOf(r).byValue[w]]_vars

\* U1 has just recognised U2, whose record dates from an earlier day, while
\* U1 holds points of its own and the third user's record exists
C38_Witness ==
  /\ last.op = "recordRecognition"
  /\ Bystander \in DOMAIN users
  /\ users["U1"].lastReset = today
  /\ users["U1"].dailyGiven > 0
  /\ users["U1"].total > 0
  /\ users["U2"].lastReset # today
  /\ DOMAIN users["U2"].byValue = Tags

(***************************************************************************)
(* Claim about units that name a group beside other targets (SpecUnits)    *)
(***************************************************************************)
\* C39: in parseRecognitionsWithGroups every target reference of a unit
\* contributes receivers: for a message of one unit that names a group, the
\* members the lookup returned, but the giver, are all among the receivers
\* of the candidates, also when the unit names a mention beside the group.
C39_EveryTargetContributes ==
  \A t \in Handlers :
    (/\ tasks[t].pc = "loop"
     /\ tasks[t].mode = "processRecognitionsWithGroups"
     /\ "answer" \in DOMAIN tasks[t]
     /\ tasks[t].answer.kind = "ok"
     /\ tasks[t].text \in Units
     /\ \E k \in 1..Len(tasks[t].text) : tasks[t].text[k] \in GroupTokens)
      => \A m \in 1..Len(tasks[t].answer.users) :
           tasks[t].answer.users[m] # tasks[t].giver =>
             \E i \in 1..Len(tasks[t].cands) :
               tasks[t].cands[i].receiver = tasks[t].answer.users[m]

====
